---- MODULE Spec2Model ----
(***************************************************************************)
(* Model of the LlamaIndex Flask server of slack-ai-assistant              *)
(* (src/llamaindex-server/app.py): the retrieval merge and confidence      *)
(* gate (retrieve_with_confidence) and the request handlers /v1/answer,    *)
(* /v1/elaborate and /v1/inject with the state they read and write.        *)
(*                                                                         *)
(* Conventions.                                                            *)
(*  - An optional Python value is a sequence of length <= 1: None is <<>>  *)
(*    and a present value v is <<v>>.                                      *)
(*  - project and version are strings modelled as sequences of one-        *)
(*    character strings, so that get_slug works on characters.             *)
(*  - Similarity scores and the two floors are written in tenths (7 for   *)
(*    0.7) and stand for the Python float nearest to that decimal; the     *)
(*    sum, the mean and the comparisons are those of binary64 floats.      *)
(***************************************************************************)
EXTENDS Integers, Sequences, FiniteSets, TLC

\* ---------------------------------------------------------------- bounds
\* largest MIN_HITS the environment sets
MaxMinHits == 2
\* largest TOP_K the environment sets
MaxTopK == 2

\* ------------------------------------------------------------- optionals
None == <<>>
Some(v) == <<v>>

\* ---------------------------------------------------------------- helpers
Min(a, b) == IF a < b THEN a ELSE b

\* ------------------------------------------------------- Python floats
\* A natural number of any size is the sequence of its digits in base
\* 2^15, the lowest digit first and the highest not 0; 0 has no digits.
DigitBits == 15
Base == 2 ^ DigitBits

RECURSIVE Trim(_)
\* the digits without zeros in the highest places
Trim(d) ==
  IF d # <<>> /\ d[Len(d)] = 0 THEN Trim(SubSeq(d, 1, Len(d) - 1)) ELSE d

RECURSIVE BigOf(_)
\* the digits of an integer
BigOf(n) == IF n = 0 THEN <<>> ELSE <<n % Base>> \o BigOf(n \div Base)

\* the digit at place i, 0 outside the number
Digit(d, i) == IF i \in 1..Len(d) THEN d[i] ELSE 0

\* the bit at place i of the number, the lowest bit at place 0
Bit(d, i) == (Digit(d, i \div DigitBits + 1) \div 2 ^ (i % DigitBits)) % 2

\* the number of bits of the number
BitLength(d) ==
  IF d = <<>> THEN 0
  ELSE (Len(d) - 1) * DigitBits
       + (CHOOSE k \in 1..DigitBits : 2 ^ (k - 1) <= d[Len(d)] /\ d[Len(d)] < 2 ^ k)

\* d * 2^s
ShiftLeft(d, s) ==
  LET q == s \div DigitBits
      r == s % DigitBits
  IN  Trim([i \in 1..q |-> 0] \o [j \in 1..(Len(d) + 1) |->
                          (Digit(d, j) % 2 ^ (DigitBits - r)) * 2 ^ r
                          + Digit(d, j - 1) \div 2 ^ (DigitBits - r)])

\* d \div 2^s
ShiftRight(d, s) ==
  LET q == s \div DigitBits
      r == s % DigitBits
  IN  Trim([j \in 1..(Len(d) - q) |->
              Digit(d, j + q) \div 2 ^ r
              + (Digit(d, j + q + 1) % 2 ^ r) * 2 ^ (DigitBits - r)])

RECURSIVE AddDigits(_, _, _, _)
\* a + b + carry from place i on
AddDigits(a, b, i, carry) ==
  IF i > Len(a) /\ i > Len(b) THEN (IF carry = 0 THEN <<>> ELSE <<carry>>)
  ELSE LET s == Digit(a, i) + Digit(b, i) + carry
       IN  <<s % Base>> \o AddDigits(a, b, i + 1, s \div Base)

RECURSIVE DivDigits(_, _, _, _)
\* the quotient and the remainder of the places i down to 1 of d by n, with
\* the remainder r carried into place i
DivDigits(d, i, n, r) ==
  IF i = 0 THEN [q |-> <<>>, r |-> r]
  ELSE LET cur == r * Base + d[i]
           rest == DivDigits(d, i - 1, n, cur % n)
       IN  [q |-> Append(rest.q, cur \div n), r |-> rest.r]

\* A float is an IEEE 754 binary64 number.  The positive float m * 2^e is
\* the record of its significand m, a number of 53 bits, and the exponent e
\* of the lowest bit; 0.0 has the significand 0.  The floats of the model
\* are 0.0 and positive normal numbers.
Precision == 53

Zero == [m |-> <<>>, e |-> 0]

\* The float nearest to d * 2^e (+ a fraction of the lowest bit when
\* inexact), ties to the even significand: the rounding of every float
\* operation.  d is not 0.
RoundEven(d, e, inexact) ==
  LET s == BitLength(d) - Precision
      kept == ShiftRight(d, s)
      more == inexact \/ \E i \in 0..(s - 2) : Bit(d, i) = 1
      up == Bit(d, s - 1) = 1 /\ (more \/ Bit(kept, 0) = 1)
      raised == AddDigits(kept, <<1>>, 1, 0)
  IN  IF s <= 0 THEN [m |-> ShiftLeft(d, 0 - s), e |-> e + s]
      ELSE IF ~up THEN [m |-> kept, e |-> e + s]
      ELSE IF BitLength(raised) > Precision
           THEN [m |-> ShiftRight(raised, 1), e |-> e + s + 1]
           ELSE [m |-> raised, e |-> e + s]

\* x + y
FloatAdd(x, y) ==
  IF x = Zero THEN y
  ELSE IF y = Zero THEN x
  ELSE LET e == Min(x.e, y.e)
       IN  RoundEven(AddDigits(ShiftLeft(x.m, x.e - e), ShiftLeft(y.m, y.e - e), 1, 0),
                     e, FALSE)

\* x / n for a positive integer n: the quotient is taken to two bits more
\* than a float keeps and rounded
FloatDiv(x, n) ==
  IF x = Zero THEN Zero
  ELSE LET more == 2 + BitLength(BigOf(n))
           dividend == ShiftLeft(x.m, more)
           d == DivDigits(dividend, Len(dividend), n, 0)
       IN  RoundEven(Trim(d.q), x.e - more, d.r # 0)

\* x < y
FloatLess(x, y) ==
  IF y = Zero THEN FALSE
  ELSE IF x = Zero THEN TRUE
  ELSE IF x.e # y.e THEN x.e < y.e
  ELSE \E i \in 1..Len(x.m) :
         /\ x.m[i] < y.m[i]
         /\ \A j \in (i + 1)..Len(x.m) : x.m[j] = y.m[j]

\* the float of each decimal from 0.0 to 1.0 by its tenths: float("0.7") is
\* the float nearest to 7/10, the integer 7 (a float without rounding)
\* divided by 10
Floats ==
  [k \in 0..10 |->
     IF k = 0 THEN Zero ELSE FloatDiv(RoundEven(BigOf(k), 0, FALSE), 10)]

\* the float of a score or floor written in tenths
Float(k) == Floats[k]

RECURSIVE SumScores(_)
\* sum(scores) of app.py line 201: the additions from the left, starting
\* at 0, each one rounded.  (The correction term that sum() carries from
\* CPython 3.12 on changes no sum of up to four of the scores of the model.)
SumScores(scores) ==
  IF scores = <<>> THEN Zero
  ELSE FloatAdd(SumScores(SubSeq(scores, 1, Len(scores) - 1)),
                Float(scores[Len(scores)]))

\* mean_score = sum(scores) / len(scores)
mean_score(scores) == FloatDiv(SumScores(scores), Len(scores))

\* similarity scores handed out by the retrievers and floors set by the
\* environment: 0.0, 0.5 (the default cutoff) and 0.7
ScoreTenths == {0, 5, 7}

\* ------------------------------------------------------- configuration
\* MIN_HITS, SIMILARITY_CUTOFF, CONFIDENCE_THRESHOLD, TOP_K: app.py lines
\* 43-46, read from the environment once at import.
Configs ==
  [MIN_HITS : 0..MaxMinHits,
   SIMILARITY_CUTOFF : ScoreTenths,
   CONFIDENCE_THRESHOLD : ScoreTenths,
   TOP_K : 1..MaxTopK]

\* --------------------------------------------------------------- corpora
\* A corpus index is the sequence of the texts of its chunks.
BaseCorpora == {<<>>, <<"A">>, <<"A", "B">>}
DeltaCorpora == {<<"A">>, <<"X">>, <<"A", "X">>}

ScoreOpt == {None} \cup {Some(s) : s \in ScoreTenths}

\* Retrieved candidates are ranked by descending similarity.
Ranked(ns) ==
  \A i \in 1..Len(ns) : \A j \in 1..Len(ns) :
    (i < j /\ ns[i].score # None /\ ns[j].score # None)
      => ~FloatLess(Float(ns[i].score[1]), Float(ns[j].score[1]))

\* index.as_retriever(similarity_top_k = k).retrieve(query): the possible
\* results for a corpus: min(k, size) distinct chunks of it, each with a
\* score of scores or without one, ranked.  src names the index that owns
\* the chunk.
Retrieve(corpus, k, src, scores) ==
  LET n == Min(k, Len(corpus))
      picks == {p \in [1..n -> 1..Len(corpus)] :
                  \A i \in 1..n : \A j \in 1..n : p[i] = p[j] => i = j}
      all == {[i \in 1..n |-> [text |-> corpus[p[i]], score |-> sc[i], src |-> src]] :
                p \in picks, sc \in [1..n -> scores]}
  IN  {ns \in all : Ranked(ns)}

\* ------------------------------------------------------ confidence gate
\* a filter that also drops a node whose score equals the cutoff
SimilarityPostprocessor_DropsEqual(nodes, c) ==
  SelectSeq(nodes, LAMBDA n : n.score # None /\ FloatLess(Float(c), Float(n.score[1])))

\* SimilarityPostprocessor(similarity_cutoff = c).postprocess_nodes(nodes)
\* of llama_index: a node is used unless its score is None or below the
\* cutoff; the nodes used keep their order.
SimilarityPostprocessor(nodes, c) ==
  SelectSeq(nodes, LAMBDA n : n.score # None /\ ~FloatLess(Float(n.score[1]), Float(c)))

\* [node.score for node in filtered_nodes if node.score is not None]
DefinedScores(nodes) ==
  LET withScore == SelectSeq(nodes, LAMBDA n : n.score # None)
  IN  [i \in 1..Len(withScore) |-> withScore[i].score[1]]

\* a gate that abstains for too few hits only when there is no hit at all
ShouldAnswer_OnlyEmpty(filtered_nodes, c) ==
  IF filtered_nodes = <<>> /\ c.MIN_HITS > 0
  THEN FALSE
  ELSE LET scores == DefinedScores(filtered_nodes)
       IN  IF filtered_nodes # <<>> /\ scores # <<>>
              /\ FloatLess(mean_score(scores), Float(c.CONFIDENCE_THRESHOLD))
           THEN FALSE
           ELSE TRUE

\* a gate that takes the mean of no scores to be 0 instead of skipping the
\* mean-confidence check
ShouldAnswer_EmptyMeanZero(filtered_nodes, c) ==
  IF Len(filtered_nodes) < c.MIN_HITS
  THEN FALSE
  ELSE LET scores == DefinedScores(filtered_nodes)
       IN  IF FloatLess(IF scores = <<>> THEN Zero ELSE mean_score(scores),
                        Float(c.CONFIDENCE_THRESHOLD))
           THEN FALSE
           ELSE TRUE

\* lines 192-208: the abstention conditions on the filtered nodes
ShouldAnswer(filtered_nodes, c) ==
  IF Len(filtered_nodes) < c.MIN_HITS
  THEN FALSE
  ELSE LET scores == DefinedScores(filtered_nodes)
       IN  IF filtered_nodes # <<>> /\ scores # <<>>
              /\ FloatLess(mean_score(scores), Float(c.CONFIDENCE_THRESHOLD))
           THEN FALSE
           ELSE TRUE

\* a merge that leaves out a delta result whose text a base result has
MergeNodes_Dedup(base_nodes, has_delta, delta_nodes) ==
  IF has_delta
  THEN base_nodes \o SelectSeq(delta_nodes,
         LAMBDA d : \A i \in 1..Len(base_nodes) : base_nodes[i].text # d.text)
  ELSE base_nodes

\* all_nodes of retrieve_with_confidence: base results, then delta results
\* when a delta index was passed.
MergeNodes(base_nodes, has_delta, delta_nodes) ==
  IF has_delta THEN base_nodes \o delta_nodes ELSE base_nodes

\* retrieve_with_confidence on the results the two retrievers returned
retrieve_with_confidence(base_nodes, has_delta, delta_nodes, c) ==
  LET all_nodes == MergeNodes(base_nodes, has_delta, delta_nodes)
      filtered_nodes == SimilarityPostprocessor(all_nodes, c.SIMILARITY_CUTOFF)
  IN  [all_nodes |-> all_nodes,
       nodes |-> filtered_nodes,
       should_answer |-> ShouldAnswer(filtered_nodes, c)]

\* ------------------------------------------------------------------ slugs
\* the sequence s contains the sequence part
Contains(s, part) ==
  \E i \in 1..(Len(s) - Len(part) + 1) : SubSeq(s, i, i + Len(part) - 1) = part

RECURSIVE Replace(_, _, _)
\* str.replace(old, new) for a non-empty old: the occurrences of old from
\* the left, not overlapping
Replace(s, old, new) ==
  IF Len(s) < Len(old) THEN s
  ELSE IF SubSeq(s, 1, Len(old)) = old
       THEN new \o Replace(SubSeq(s, Len(old) + 1, Len(s)), old, new)
       ELSE <<Head(s)>> \o Replace(Tail(s), old, new)

RECURSIVE normalize_version(_)
RECURSIVE normalize_version_Hyphen(_)
\* a normalisation that writes "-" for "."
normalize_version_Hyphen(version) ==
  IF version = <<>> THEN <<>>
  ELSE (IF Head(version) = "." THEN <<"-">>
        ELSE <<Head(version)>>) \o normalize_version_Hyphen(Tail(version))

\* version.replace(".", "-dot-")
normalize_version(version) ==
  IF version = <<>> THEN <<>>
  ELSE (IF Head(version) = "." THEN <<"-", "d", "o", "t", "-">>
        ELSE <<Head(version)>>) \o normalize_version(Tail(version))

\* version_slug.replace("-dot-", "."), as load_or_create_delta_index
\* turns the version part of a slug back into the version
denormalize_version(version_slug) ==
  Replace(version_slug, <<"-", "d", "o", "t", "-">>, <<".">>)

\* a slug without the "-" between project and version
get_slug_Unseparated(project, version) ==
  IF version # <<>> THEN project \o normalize_version(version)
  ELSE project

\* f"{project}-{normalize_version(version)}" if version else project
get_slug(project, version) ==
  IF version # <<>> THEN project \o <<"-">> \o normalize_version(version)
  ELSE project

\* --------------------------------------------------------- request inputs
\* answer/elaborate exchanges stored per thread in one behaviour
MaxCalls == 1
\* inject requests that reach the injection log in one behaviour
MaxInjects == 1
\* characters a json.dump that is cut short gets into the thread file
MaxCut == 1

\* values of the JSON fields: absent (None), empty, or a value
ProjectArgs == {None, Some(<<>>), Some(<<"k">>), Some(<<"u">>)}
VersionArgs == {None, Some(<<>>), Some(<<"1", ".", "2">>)}
ThreadArgs == {None, Some(""), Some("t1")}
MessageArgs == {None, Some(""), Some("q")}
TextArgs == {None, Some(""), Some("X")}


\* a validation that takes an empty string for a value
Truthy_EmptyPasses(field) == field # None

\* Python truth of an optional string field (None and "" are false)
Truthy(field) == field # None /\ Len(field[1]) > 0
\* the same for a field whose string is a TLA+ string
TruthyStr(field) == field # None /\ field[1] # ""

\* dictionary update d[k] = v
Put(d, k, v) == (k :> v) @@ d

\* the requests the server has in flight at once: Flask serves every request
\* in a thread of its own and the handlers take no lock
MaxWorkers == 2
Workers == 1..MaxWorkers

RECURSIVE Str(_)
\* the Python string of a sequence of characters
Str(s) == IF s = <<>> THEN "" ELSE Head(s) \o Str(Tail(s))

\* ------------------------------------------------------------------ state
VARIABLES
  cfg,            \* MIN_HITS, SIMILARITY_CUTOFF, CONFIDENCE_THRESHOLD, TOP_K
  indexes,        \* slug -> base index (its chunks' texts)
  delta_indexes,  \* slug -> delta index (a reference to an object of heap)
  delta_disk,     \* DELTA_ROOT/slug: the persisted delta index
  inject_log,     \* INJECT_ROOT/project/version/<date>.jsonl: the content
  thread_disk,    \* STATE_ROOT/threads/<thread_slug>.json
  threads,        \* thread_slug -> messages (in-memory cache)
  next_uuid,      \* the identifiers uuid4 has handed out so far
  last,           \* what the latest step of a handler did: its response, or
                  \* what it retrieved (NoRequest: neither)
  gate,           \* the latest call of retrieve_with_confidence
  today,          \* datetime.now(), as a day number
  call,           \* the latest direct call of a helper function
  acked,          \* the requests answered with 200: the documents of
                  \* inject, the exchanges of answer and elaborate
  inflight,       \* worker -> the request it serves: position and locals
  heap            \* the delta index objects (their chunks, [id, text, metadata])

vars == <<cfg, indexes, delta_indexes, delta_disk, inject_log,
          thread_disk, threads, next_uuid, last, gate, today, call,
          acked, inflight, heap>>

NoCall == [called |-> FALSE]

\* a request body; a field the endpoint does not read is None
Body(project, version, thread_slug, message, textContent) ==
  [project |-> project, version |-> version, thread_slug |-> thread_slug,
   message |-> message, textContent |-> textContent]

\* the reply to a request, with what the handler did for it: status and
\* body of the HTTP response (status 0: none yet), the calls of the
\* generation service and of the retrievers, the decision of the gate and
\* the nodes it accepted, the context of the prompt, response_text once it
\* is set, the call an exception came from, for a crash the requests it
\* ended; overlapped and before as the worker recorded them
Response(op, request, status, kind, text) ==
  [op |-> op, request |-> request, status |-> status, kind |-> kind, text |-> text,
   gen_calls |-> 0, gen_text |-> None, retrievals |-> 0,
   should_answer |-> None, nodes |-> <<>>, context |-> <<>>,
   response_text |-> None, raised_at |-> "", interrupted |-> {},
   overlapped |-> FALSE, before |-> <<>>]

NoRequest == Response("none", Body(None, None, None, None, None), 0, "none", "")

\* an exception that leaves a handler, which has no try block of its own:
\* the framework answers 500 "Internal Server Error".  where: the call the
\* exception came from
Failure(resp, where) ==
  [resp EXCEPT !.status = 500, !.kind = "error",
               !.text = "Internal Server Error", !.raised_at = where]

\* a worker without a request.  The locals the handlers read again after
\* a step: delta_index, thread_messages, doc.  overlapped: another request
\* on the same thread (or slug, for inject) was in flight while this one
\* was; before: the stored history when the request arrived
Idle ==
  [pc |-> "idle", resp |-> NoRequest, delta_index |-> 0,
   thread_messages |-> <<>>, doc |-> None, overlapped |-> FALSE,
   before |-> <<>>]

\* the server process is running: it has not crashed and not failed to
\* start since its last start
Running == last.kind \notin {"crash", "start_failed"}

\* the running server hands a new request to the first worker without one
Free(w) ==
  /\ Running
  /\ inflight[w].pc = "idle"
  /\ \A v \in Workers : v < w => inflight[v].pc # "idle"

\* the workers serving an answer or elaborate request on the thread
ServingThread(thread_slug) ==
  {v \in Workers : /\ inflight[v].pc # "idle"
                   /\ inflight[v].resp.op \in {"answer", "elaborate"}
                   /\ inflight[v].resp.request.thread_slug = Some(thread_slug)}

\* the workers serving an inject request for the slug
ServingSlug(slug) ==
  {v \in Workers : /\ inflight[v].pc # "idle"
                   /\ inflight[v].resp.op = "inject"
                   /\ get_slug(inflight[v].resp.request.project[1],
                               inflight[v].resp.request.version[1]) = slug}

\* worker w goes on with the request as `serving`, next to the requests of
\* `others`
Serve(w, serving, others) ==
  inflight' = [v \in Workers |->
                 IF v = w THEN [serving EXCEPT !.overlapped = (others # {})]
                 ELSE IF v \in others THEN [inflight[v] EXCEPT !.overlapped = TRUE]
                 ELSE inflight[v]]

\* the handler of worker w returns
Release(w) == inflight' = [inflight EXCEPT ![w] = Idle]

\* the slug the base index of the model is registered under
KnownSlug == get_slug(<<"k">>, <<"1", ".", "2">>)

\* the registries and stores after initialize_server on a fresh deployment
\* with one base index
InitStores ==
  /\ indexes = (KnownSlug :> <<"A", "B">>)
  /\ delta_indexes = <<>>
  /\ delta_disk = <<>>
  /\ inject_log = <<>>
  /\ thread_disk = <<>>
  /\ threads = <<>>
  /\ next_uuid = 0
  /\ today = 1
  /\ acked = {}
  /\ inflight = [w \in Workers |-> Idle]
  /\ heap = <<>>

\* the configurations the server is run under: MIN_HITS = 1 and TOP_K = 2
\* with the cutoff above the confidence floor (as the defaults are) and
\* below it
ServerConfigs ==
  {[MIN_HITS |-> 1, SIMILARITY_CUTOFF |-> 5, CONFIDENCE_THRESHOLD |-> 0,
    TOP_K |-> 2],
   [MIN_HITS |-> 1, SIMILARITY_CUTOFF |-> 0, CONFIDENCE_THRESHOLD |-> 5,
    TOP_K |-> 2]}

\* the scores the retrievers hand to the answer handler: none, the lowest
\* and the highest
AnswerScores == {None, Some(0), Some(7)}

Init ==
  /\ cfg \in ServerConfigs
  /\ InitStores
  /\ last = NoRequest
  /\ gate = NoCall
  /\ call = NoCall

\* the delta index registered for the slug: delta_indexes.get(slug), 0 for
\* None
RegisteredIndex(slug) ==
  IF slug \in DOMAIN delta_indexes THEN delta_indexes[slug] ELSE 0

\* the chunks of the delta index registered for the slug
DeltaChunks(slug) == heap[delta_indexes[slug]]

\* -------------------------------------------------------- thread memory
\* A JSON object is the sequence of its <<key, value>> pairs in the order
\* of the dict; the keys and the values of a thread file are strings.
\* {"role": role, "content": content}
Message(role, content) == <<<<"role", role>>, <<"content", content>>>>

\* "key" in msg
HasKey(msg, key) == \E k \in 1..Len(msg) : msg[k][1] = key

\* msg[key] = value: the value of a key the dict holds is replaced where it
\* stands, a new key goes to the end
SetKey(msg, key, value) ==
  IF HasKey(msg, key)
  THEN [k \in 1..Len(msg) |-> IF msg[k][1] = key THEN <<key, value>> ELSE msg[k]]
  ELSE Append(msg, <<key, value>>)

RECURSIVE Concat(_, _)
\* sep.join(texts) as one text
Concat(sep, texts) ==
  IF texts = <<>> THEN ""
  ELSE IF Len(texts) = 1 THEN texts[1]
  ELSE texts[1] \o sep \o Concat(sep, Tail(texts))

\* a string as json.dump writes it (the strings here hold no character that
\* is written as an escape)
DumpString(string) == "\"" \o string \o "\""

\* an object of the list as json.dump(..., indent=2) writes it
DumpObject(msg) ==
  IF msg = <<>> THEN "{}"
  ELSE "{\n"
       \o Concat(",\n", [k \in 1..Len(msg) |->
                           "    " \o DumpString(msg[k][1]) \o ": "
                                  \o DumpString(msg[k][2])])
       \o "\n  }"

\* the text json.dump(messages, f, indent=2) writes
json_dump(messages) ==
  IF messages = <<>> THEN "[]"
  ELSE "[\n"
       \o Concat(",\n", [k \in 1..Len(messages) |-> "  " \o DumpObject(messages[k])])
       \o "\n]"

\* the character at position i of a text, "" after its end
Char(text, i) == IF i <= Len(text) THEN SubSeq(text, i, i) ELSE ""


RECURSIVE SkipSpace(_, _)
\* the first position from i on that holds none of the characters
\* json.load passes over between the parts of a text
SkipSpace(text, i) ==
  IF Char(text, i) \in {" ", "\t", "\n", "\r"} THEN SkipSpace(text, i + 1) ELSE i

RECURSIVE StringEnd(_, _)
\* the position of the quote that closes the string whose characters start
\* at i; 0 when the text ends first, or a control character or a backslash
\* comes first (escapes are not read: no text here holds one)
StringEnd(text, i) ==
  IF Char(text, i) = "\"" THEN i
  ELSE IF Char(text, i) \in {"", "\t", "\n", "\r", "\\"} THEN 0
  ELSE StringEnd(text, i + 1)

\* a part of the text that json.load does not accept
Rejected == [ok |-> FALSE, v |-> <<>>, i |-> 0]

\* a part that was read: its value and the position after it
Parsed(v, i) == [ok |-> TRUE, v |-> v, i |-> i]

\* the string that starts at position i
ParseString(text, i) ==
  LET end == StringEnd(text, i + 1) IN
  IF Char(text, i) # "\"" \/ end = 0 THEN Rejected
  ELSE Parsed(SubSeq(text, i + 1, end - 1), end + 1)

RECURSIVE ParsePairs(_, _, _)
\* the pairs of an object from the key at position i on; msg: the pairs
\* read so far
ParsePairs(text, i, msg) ==
  LET key == ParseString(text, i)
      colon == SkipSpace(text, key.i)
      value == ParseString(text, SkipSpace(text, colon + 1))
      next == SkipSpace(text, value.i)
  IN  IF ~key.ok \/ Char(text, colon) # ":" THEN Rejected
      ELSE IF ~value.ok THEN Rejected
      ELSE IF Char(text, next) = "}"
           THEN Parsed(SetKey(msg, key.v, value.v), next + 1)
      ELSE IF Char(text, next) = ","
           THEN ParsePairs(text, SkipSpace(text, next + 1),
                           SetKey(msg, key.v, value.v))
      ELSE Rejected

\* the object that starts at position i
ParseObject(text, i) ==
  LET first == SkipSpace(text, i + 1) IN
  IF Char(text, i) # "{" THEN Rejected
  ELSE IF Char(text, first) = "}" THEN Parsed(<<>>, first + 1)
  ELSE ParsePairs(text, first, <<>>)

RECURSIVE ParseItems(_, _, _)
\* the items of the list from the object at position i on; messages: the
\* objects read so far
ParseItems(text, i, messages) ==
  LET msg == ParseObject(text, i)
      next == SkipSpace(text, msg.i)
  IN  IF ~msg.ok THEN Rejected
      ELSE IF Char(text, next) = "]"
           THEN Parsed(Append(messages, msg.v), next + 1)
      ELSE IF Char(text, next) = ","
           THEN ParseItems(text, SkipSpace(text, next + 1), Append(messages, msg.v))
      ELSE Rejected

\* json.load(f) of a thread file: the list of objects the text stands for,
\* with any whitespace between its parts; Rejected stands for the
\* JSONDecodeError of every other text (an empty file, a text that ends
\* early, one with characters after the list).  The texts read are lists
\* of objects of strings: an item or a value of another kind is rejected.
json_load(text) ==
  LET start == SkipSpace(text, 1)
      first == SkipSpace(text, start + 1)
      list == IF Char(text, start) # "[" THEN Rejected
              ELSE IF Char(text, first) = "]" THEN Parsed(<<>>, first + 1)
              ELSE ParseItems(text, first, <<>>)
  IN  IF ~list.ok THEN Rejected
      ELSE IF SkipSpace(text, list.i) # Len(text) + 1 THEN Rejected
      ELSE list

\* a thread file: its text, and what json.load makes of it (parses: it
\* returns the list `messages`)
File(text) ==
  LET loaded == json_load(text) IN
  [text |-> text, parses |-> loaded.ok,
   messages |-> IF loaded.ok THEN loaded.v ELSE <<>>]

\* a file written from its start: the text takes the place of the first
\* characters of the file and what the file holds after them stays
WriteOver(old, text) == text \o SubSeq(old, Len(text) + 1, Len(old))

\* load_thread_memory: the stored list, [] when the file does not exist;
\* raised for the JSONDecodeError of a file that does not parse
load_thread_memory(thread_slug) ==
  IF thread_slug \notin DOMAIN thread_disk
  THEN [raised |-> FALSE, messages |-> <<>>]
  ELSE [raised |-> ~thread_disk[thread_slug].parses,
        messages |-> thread_disk[thread_slug].messages]

\* the messages the thread file holds (none when it does not parse)
StoredMessages(thread_slug) == load_thread_memory(thread_slug).messages

\* an update that stores the new exchange in place of the history
AppendExchange_Overwrites(thread_messages, message, response_text) ==
  <<Message("user", message), Message("assistant", response_text)>>

\* the two appends of the "Update thread memory" blocks
AppendExchange(thread_messages, message, response_text) ==
  thread_messages \o <<Message("user", message),
                       Message("assistant", response_text)>>

RECURSIVE Join(_, _)
RECURSIVE Join_Reversed(_, _)
\* a join that puts the texts in reverse order
Join_Reversed(sep, texts) ==
  IF texts = <<>> THEN <<>>
  ELSE IF Len(texts) = 1 THEN <<texts[1]>>
  ELSE Join_Reversed(sep, Tail(texts)) \o <<sep, texts[1]>>

\* "\n\n".join(texts): the texts with the separator between neighbours
Join(sep, texts) ==
  IF texts = <<>> THEN <<>>
  ELSE IF Len(texts) = 1 THEN <<texts[1]>>
  ELSE <<texts[1], sep>> \o Join(sep, Tail(texts))

\* [node.node.get_content() for node in nodes]
Contents(nodes) == [i \in 1..Len(nodes) |-> nodes[i].text]

\* the node without its score, as the answer handler uses it
Chunks(nodes) == [i \in 1..Len(nodes) |-> [text |-> nodes[i].text, src |-> nodes[i].src]]

\* texts of the chunks of a delta index
Texts(index) == [i \in 1..Len(index) |-> index[i].text]

\* save_thread_memory up to open(thread_path, 'w'), which empties the file;
\* ~opened: mkdir or open raised
SaveBegin(w, opened) ==
  LET resp == inflight[w].resp
      thread_slug == resp.request.thread_slug[1]
  IN
  /\ inflight[w].pc = "save"
  /\ UNCHANGED <<cfg, indexes, delta_indexes, delta_disk, inject_log, threads,
                 next_uuid, gate, today, call, acked, heap>>
  /\ IF opened
     THEN /\ thread_disk' = Put(thread_disk, thread_slug, File(""))
          /\ inflight' = [inflight EXCEPT ![w].pc = "dump"]
          /\ last' = NoRequest
     ELSE /\ last' = Failure(resp, "save")
          /\ Release(w)
          /\ UNCHANGED thread_disk

\* the text the request of worker w writes to its thread file
DumpText(w) == json_dump(inflight[w].thread_messages)

\* how many characters of its text json.dump can get into the file before
\* a write raises; all of them: it returns
DumpOutcomes(w) == 0..Len(DumpText(w))

\* the outcomes with at most `limit` characters, and the whole text
DumpsWithin(w, limit) ==
  {written \in DumpOutcomes(w) : written <= limit \/ written = Len(DumpText(w))}

\* json.dump(messages, f, indent=2) and the close of the file: the first
\* `written` characters of the text go to the start of the file, over what
\* another request has written there since this one opened it
SaveEnd(w, written) ==
  LET resp == inflight[w].resp
      thread_slug == resp.request.thread_slug[1]
      file == thread_disk[thread_slug]
      text == DumpText(w)
  IN
  /\ inflight[w].pc = "dump"
  /\ UNCHANGED <<cfg, indexes, delta_indexes, delta_disk, inject_log, threads,
                 next_uuid, gate, today, call, acked, heap>>
  /\ thread_disk' = Put(thread_disk, thread_slug,
                        File(WriteOver(file.text, SubSeq(text, 1, written))))
  /\ IF written = Len(text)
     THEN /\ inflight' = [inflight EXCEPT ![w].pc = "cache"]
          /\ last' = NoRequest
     ELSE /\ last' = Failure(resp, "save")
          /\ Release(w)

\* a request answered with 200.  For inject: the slug, the identifier and
\* the text of the document; for answer and elaborate: the thread, the
\* length of the list the request saved, the message and the response text
Answered200(op, slug, id, text, response) ==
  [op |-> op, slug |-> slug, id |-> id, text |-> text, response |-> response]

\* threads[thread_slug] = thread_messages, and the response
CacheThread(w) ==
  LET resp == inflight[w].resp IN
  /\ inflight[w].pc = "cache"
  /\ acked' = acked \cup {Answered200(resp.op, resp.request.thread_slug[1],
                                       Len(inflight[w].thread_messages),
                                       resp.request.message[1],
                                       resp.response_text[1])}
  /\ threads' = Put(threads, resp.request.thread_slug[1], inflight[w].thread_messages)
  /\ last' = [resp EXCEPT !.status = 200, !.kind = "textResponse",
                          !.text = resp.response_text[1],
                          !.overlapped = inflight[w].overlapped,
                          !.before = inflight[w].before]
  /\ Release(w)
  /\ UNCHANGED <<cfg, indexes, delta_indexes, delta_disk, inject_log, thread_disk,
                 next_uuid, gate, today, call, heap>>

\* ---------------------------------------------------------------- answer
\* What retrieve_with_confidence(base_index, delta_index, message) can
\* return to the answer handler: the accepted nodes (the handler reads
\* their content only) and the decision, over every result the retrievers
\* can produce; calls: the retrievers that were called.
Retrievals(base_index, delta_index) ==
  {[raised |-> FALSE, calls |-> IF delta_index # None THEN 2 ELSE 1,
    nodes |-> Chunks(r.nodes), should_answer |-> r.should_answer] :
     r \in {retrieve_with_confidence(base_nodes, delta_index # None,
                                     delta_nodes, cfg) :
              base_nodes \in Retrieve(base_index, cfg.TOP_K, "base", AnswerScores),
              delta_nodes \in (IF delta_index # None
                               THEN Retrieve(Texts(delta_index[1]), cfg.TOP_K,
                                             "delta", AnswerScores)
                               ELSE {<<>>})}}

\* retrieve_with_confidence left by an exception of the base retriever or
\* of the delta retriever
RetrievalErrors(delta_index) ==
  {[raised |-> TRUE, calls |-> n, nodes |-> <<>>, should_answer |-> FALSE] :
     n \in (IF delta_index # None THEN {1, 2} ELSE {1})}

\* a lookup that falls back to the delta index of the slug
BaseIndexOf_DeltaFallback(slug) ==
  IF slug \in DOMAIN indexes THEN Some(indexes[slug])
  ELSE IF slug \in DOMAIN delta_indexes
       THEN Some(Texts(DeltaChunks(slug)))
       ELSE None

\* indexes.get(slug) of the answer handler
BaseIndexOf(slug) == IF slug \in DOMAIN indexes THEN Some(indexes[slug]) ELSE None

\* the error of the answer handler for a slug without base index
NotFoundText(project, version) ==
  "No index found for " \o Str(project) \o "/" \o Str(version)

\* an answer whose refusal lacks the full stop
AnswerText_OtherRefusal(should_answer, generated) ==
  IF ~should_answer THEN "I don't know" ELSE generated[1]

\* response_text of the answer handler: the fixed refusal, or the text
\* generate_with_gemini returned
AnswerText(should_answer, generated) ==
  IF ~should_answer THEN "I don't know." ELSE generated[1]

\* a call that turns an error of the provider into the refusal text
generate_with_gemini_Swallows(reply) ==
  IF reply = None THEN [raised |-> FALSE, text |-> Some("I don't know.")]
  ELSE [raised |-> FALSE, text |-> reply]

\* generate_with_gemini: the text of the provider's reply; an error of the
\* provider (reply None) is not caught and leaves the function as an
\* exception
generate_with_gemini(reply) ==
  [raised |-> reply = None, text |-> reply]

\* what the generation service can do: raise (None) or reply
Replies == {None, Some("G")}

\* POST /v1/answer up to the lookups in the two registries
AnswerReceive(w, project, version, thread_slug, message) ==
  LET request == Body(project, version, thread_slug, message, None) IN
  /\ Free(w)
  /\ UNCHANGED <<cfg, indexes, delta_indexes, delta_disk, inject_log, thread_disk,
                 threads, next_uuid, gate, today, call, acked, heap>>
  /\ IF ~(Truthy(project) /\ Truthy(version)
          /\ TruthyStr(thread_slug) /\ TruthyStr(message))
     THEN /\ last' = Response("answer", request, 400, "error", "Missing required fields")
          /\ UNCHANGED inflight
     ELSE LET slug == get_slug(project[1], version[1]) IN
          IF BaseIndexOf(slug) = None
          THEN /\ last' = Response("answer", request, 404, "error",
                                   NotFoundText(project[1], version[1]))
               /\ UNCHANGED inflight
          ELSE /\ Serve(w, [Idle EXCEPT
                              !.pc = "retrieve",
                              !.resp = Response("answer", request, 0, "", ""),
                              !.delta_index = RegisteredIndex(slug),
                              !.before = StoredMessages(thread_slug[1])],
                        ServingThread(thread_slug[1]))
               /\ last' = NoRequest

\* retrieve_with_confidence on the base index and the delta index object
\* the handler holds, then the refusal or the prompt and generate_with_gemini.
\* retrieved: what the retrievers did; reply: what the generation service
\* did (None: it raised, or it was not called).
AnswerRetrieve(w, retrieved, reply) ==
  LET resp == inflight[w].resp
      request == resp.request
      seen == [resp EXCEPT !.retrievals = retrieved.calls]
      gated == [seen EXCEPT !.should_answer = Some(retrieved.should_answer)]
      prompted == [gated EXCEPT !.gen_calls = 1]
      context == Join("\n\n", Contents(retrieved.nodes))
      called == generate_with_gemini(reply)
      refused == [gated EXCEPT !.response_text = Some(AnswerText(FALSE, None))]
      generated == [prompted EXCEPT !.gen_text = reply,
                                    !.response_text = Some(AnswerText(TRUE, called.text))]
  IN
  /\ inflight[w].pc = "retrieve"
  /\ UNCHANGED <<cfg, indexes, delta_indexes, delta_disk, inject_log, thread_disk,
                 threads, next_uuid, gate, today, call, acked, heap>>
  /\ IF retrieved.raised
     THEN /\ reply = None
          /\ last' = Failure(seen, "retrieve")
          /\ Release(w)
     ELSE IF ~retrieved.should_answer
     THEN \* an abstaining answer does not consult the generator
          /\ reply = None
          /\ inflight' = [inflight EXCEPT ![w].pc = "load", ![w].resp = refused]
          /\ last' = [refused EXCEPT !.kind = "retrieved", !.nodes = retrieved.nodes]
     ELSE IF called.raised
     THEN /\ last' = Failure([prompted EXCEPT !.nodes = retrieved.nodes,
                                               !.context = context], "generate")
          /\ Release(w)
     ELSE /\ inflight' = [inflight EXCEPT ![w].pc = "load", ![w].resp = generated]
          /\ last' = [generated EXCEPT !.kind = "retrieved",
                                       !.nodes = retrieved.nodes,
                                       !.context = context]

\* the inputs of AnswerRetrieve for the request of worker w
AnswerRetrieveInputs(w) ==
  LET request == inflight[w].resp.request
      base_index == BaseIndexOf(get_slug(request.project[1], request.version[1]))
      delta_index == IF inflight[w].delta_index = 0 THEN None
                     ELSE Some(heap[inflight[w].delta_index])
  IN  Retrievals(base_index[1], delta_index) \cup RetrievalErrors(delta_index)

\* thread_messages = load_thread_memory(thread_slug) and the two appends
AnswerLoad(w) ==
  LET resp == inflight[w].resp
      loaded == load_thread_memory(resp.request.thread_slug[1])
  IN
  /\ inflight[w].pc = "load"
  /\ UNCHANGED <<cfg, indexes, delta_indexes, delta_disk, inject_log, thread_disk,
                 threads, next_uuid, gate, today, call, acked, heap>>
  /\ IF loaded.raised
     THEN /\ last' = Failure(resp, "load")
          /\ Release(w)
     ELSE /\ inflight' = [inflight EXCEPT
                            ![w].pc = "save",
                            ![w].thread_messages =
                              AppendExchange(loaded.messages, resp.request.message[1],
                                             resp.response_text[1])]
          /\ last' = NoRequest

\* ------------------------------------------------------------- elaborate
\* the list comprehension of the conversation reads msg['role'] and
\* msg['content'] of every stored message
Conversable(messages) ==
  \A k \in 1..Len(messages) :
    HasKey(messages[k], "role") /\ HasKey(messages[k], "content")

\* POST /v1/elaborate up to the two appends: the history is loaded, the
\* prompt built from it and generate_with_gemini called; no retrieval.
ElaborateReceive(w, thread_slug, message, reply) ==
  LET request == Body(None, None, thread_slug, message, None)
      resp == Response("elaborate", request, 0, "", "")
  IN
  /\ Free(w)
  /\ UNCHANGED <<cfg, indexes, delta_indexes, delta_disk, inject_log, thread_disk,
                 threads, next_uuid, gate, today, call, acked, heap>>
  /\ IF ~(TruthyStr(thread_slug) /\ TruthyStr(message))
     THEN /\ reply = None
          /\ last' = Response("elaborate", request, 400, "error", "Missing required fields")
          /\ UNCHANGED inflight
     ELSE LET loaded == load_thread_memory(thread_slug[1])
              called == generate_with_gemini(reply)
          IN
          IF loaded.raised
          THEN /\ reply = None
               /\ last' = Failure(resp, "load")
               /\ UNCHANGED inflight
          ELSE IF ~Conversable(loaded.messages)
          THEN \* the KeyError of msg['role'] or msg['content']
               /\ reply = None
               /\ last' = Failure(resp, "conversation")
               /\ UNCHANGED inflight
          ELSE IF called.raised
          THEN /\ last' = Failure([resp EXCEPT !.gen_calls = 1], "generate")
               /\ UNCHANGED inflight
          ELSE /\ Serve(w, [Idle EXCEPT
                              !.pc = "save",
                              !.resp = [resp EXCEPT !.gen_calls = 1,
                                                    !.gen_text = reply,
                                                    !.response_text = called.text],
                              !.thread_messages =
                                AppendExchange(loaded.messages, message[1],
                                               called.text[1]),
                              !.before = loaded.messages],
                        ServingThread(thread_slug[1]))
               /\ last' = NoRequest

\* ------------------------------------------------------- injection log
\* the directory INJECT_ROOT / project / normalize_version(version)
InjectDir(project, version) == <<project, normalize_version(version)>>

\* the file <date>.jsonl of a directory
JsonlFile(dir, day) == <<dir[1], dir[2], day>>

\* the *.jsonl files of a directory
FilesOf(dir) == {file \in DOMAIN inject_log : file[1] = dir[1] /\ file[2] = dir[2]}

\* what a file holds, nothing when it does not exist
ContentOf(log, file) == IF file \in DOMAIN log THEN log[file] ELSE <<>>

\* A file is a sequence of tokens: a JSON object is written as an opening
\* brace, its fields and a closing brace, and a line ends with a newline.
ObjectOpen == [t |-> "{"]
ObjectClose == [t |-> "}"]
Newline == [t |-> "\n"]
FieldsOf(record) == [t |-> "fields", v |-> record]

\* json.dumps(record)
json_dumps(record) == <<ObjectOpen, FieldsOf(record), ObjectClose>>

\* json.loads(line): the record of a line that is one complete object;
\* None stands for the JSONDecodeError of any other line
json_loads(line) ==
  IF /\ Len(line) = 3
     /\ line[1] = ObjectOpen
     /\ line[2].t = "fields"
     /\ line[3] = ObjectClose
  THEN Some(line[2].v)
  ELSE None


\* metadata or {}
MetadataOrEmpty(metadata) ==
  IF metadata = None \/ metadata[1] = {} THEN {} ELSE metadata[1]

\* the record append_to_jsonl writes; stamp: the clock when the record is
\* made
Record(id, stamp, text, metadata) ==
  [id |-> id, timestamp |-> stamp, text |-> text,
   metadata |-> MetadataOrEmpty(metadata)]

\* the tokens of one complete write of append_to_jsonl
WriteLen == 4

\* a write that leaves the file as it was
append_to_jsonl_Lost(log, project, version, text, metadata, id, written, day, stamp) == log

\* append_to_jsonl: the log after json.dumps(record) + "\n" was appended to
\* the file of the directory named after the day the clock showed first;
\* the record carries what the clock showed second.  A write that is cut
\* short leaves only the first `written` tokens in the file (none: an empty
\* file); written < 0: mkdir or open raised and the file is as it was.
append_to_jsonl(log, project, version, text, metadata, id, written, day, stamp) ==
  LET file == JsonlFile(InjectDir(project, version), day)
      line == json_dumps(Record(id, stamp, text, metadata)) \o <<Newline>>
  IN  IF written < 0 THEN log
      ELSE Put(log, file, ContentOf(log, file) \o SubSeq(line, 1, written))

\* jsonl_dir.mkdir raised: before the clock is read and the identifier of
\* the record is drawn
MkdirFailed == -2

\* open(jsonl_file, 'a') raised: after the record was made
OpenFailed == -1

\* how far append_to_jsonl can get
WriteOutcomes == MkdirFailed..WriteLen

RECURSIVE SplitLines(_, _)
\* `for line in f`: the lines of a file, without their newline; current is
\* the line read so far
SplitLines(content, current) ==
  IF content = <<>> THEN (IF current = <<>> THEN <<>> ELSE <<current>>)
  ELSE IF Head(content) = Newline
       THEN <<current>> \o SplitLines(Tail(content), <<>>)
       ELSE SplitLines(Tail(content), Append(current, Head(content)))

\* a document that loses the metadata of its record
DocumentOf_NoMetadata(record) ==
  [id |-> record.id, text |-> record.text, metadata |-> {}]

\* Document(text=record["text"], metadata=record.get("metadata", {}),
\*          doc_id=record.get("id"))
DocumentOf(record) ==
  [id |-> record.id, text |-> record.text, metadata |-> record.metadata]

RECURSIVE ReadLines(_)
\* the loop over the lines: blank lines are passed over, every other line
\* is parsed; the error of a line that does not parse is not caught and
\* ends the loop and the function
ReadLines(lines) ==
  IF lines = <<>> THEN [raised |-> FALSE, documents |-> <<>>]
  ELSE IF Head(lines) = <<>> THEN ReadLines(Tail(lines))
  ELSE LET record == json_loads(Head(lines)) IN
       IF record = None THEN [raised |-> TRUE, documents |-> <<>>]
       ELSE LET rest == ReadLines(Tail(lines)) IN
            IF rest.raised THEN rest
            ELSE [raised |-> FALSE,
                  documents |-> <<DocumentOf(record[1])>> \o rest.documents]

RECURSIVE LinesOf(_, _)
\* the lines of the files in the order they are read in
LinesOf(log, order) ==
  IF order = <<>> THEN <<>>
  ELSE SplitLines(ContentOf(log, Head(order)), <<>>) \o LinesOf(log, Tail(order))

\* the orders glob can list the files in
Orders(files) ==
  {order \in [1..Cardinality(files) -> files] :
     \A i, j \in 1..Cardinality(files) : order[i] = order[j] => i = j}

\* load_injected_documents(project, version): what it can return, one
\* result for every order of the files (no file: the empty list)
load_injected_documents(project, version) ==
  {ReadLines(LinesOf(inject_log, order)) :
     order \in Orders(FilesOf(InjectDir(project, version)))}

\* ------------------------------------------------- persisted delta index
\* the directory DELTA_ROOT/slug with the files of a persisted index
Persisted(chunks) == [loadable |-> TRUE, chunks |-> chunks]

\* the directory DELTA_ROOT/slug without files an index can be loaded from:
\* made by mkdir and not yet written to, or written in part
Unloadable == [loadable |-> FALSE, chunks |-> <<>>]

\* slug.split("-", 1): the parts before and after the first "-", None for
\* the ValueError of unpacking a slug without "-"
SplitSlug(slug) ==
  IF ~Contains(slug, <<"-">>) THEN None
  ELSE LET i == CHOOSE k \in 1..Len(slug) :
                  slug[k] = "-" /\ \A j \in 1..(k - 1) : slug[j] # "-"
       IN  Some(<<SubSeq(slug, 1, i - 1), SubSeq(slug, i + 1, Len(slug))>>)

\* what building and persisting the index of the documents can come to:
\* "embedding_failed": the embedding call of from_documents raises;
\* "open_failed", "write_failed": persist cannot open or write its files;
\* "persisted": the index is built and its files are written whole
RebuildOutcomes == {"embedding_failed", "open_failed", "write_failed", "persisted"}

\* load_or_create_delta_index(slug), called for a directory of DELTA_ROOT:
\* the persisted index when it loads; otherwise the index built from the
\* documents of the injection log and persisted, or None without
\* documents.  One result for each result of load_injected_documents and
\* each outcome of the build; raised: an exception leaves the function
\* (building and persisting are outside its try), and the directory stays
\* without files an index can be loaded from.
load_or_create_delta_index(slug) ==
  IF slug \in DOMAIN delta_disk /\ delta_disk[slug].loadable
  THEN {[raised |-> FALSE, index |-> Some(delta_disk[slug].chunks), persist |-> None]}
  ELSE LET parts == SplitSlug(slug) IN
       IF parts = None
       THEN {[raised |-> TRUE, index |-> None, persist |-> None]}
       ELSE {IF result.raised
             THEN [raised |-> TRUE, index |-> None, persist |-> None]
             ELSE IF result.documents = <<>>
                  THEN [raised |-> FALSE, index |-> None, persist |-> None]
                  ELSE IF built = "persisted"
                       THEN [raised |-> FALSE, index |-> Some(result.documents),
                             persist |-> Some(Persisted(result.documents))]
                       ELSE [raised |-> TRUE, index |-> None, persist |-> None] :
               result \in load_injected_documents(parts[1][1],
                                                  denormalize_version(parts[1][2])),
               built \in RebuildOutcomes}


\* ---------------------------------------------------------------- inject
\* the delta index after the "Update or create delta index" block: the
\* document inserted into the index the handler holds, or a new index of the
\* document alone
InsertDocument(delta_index, doc) ==
  IF delta_index # None THEN Append(delta_index[1], doc) ELSE <<doc>>

\* POST /v1/inject up to the Document: the validation, append_to_jsonl and
\* the Document with an identifier of its own.  metadata is the field of
\* the body (None: not given); written: how far the write to the log gets;
\* midnight: the day changes between the two readings of the clock in
\* append_to_jsonl.  append_to_jsonl draws the identifier of its record
\* after mkdir and the first reading of the clock and before it opens the
\* file; the Document draws a second one after append_to_jsonl returned.
InjectReceive(w, project, version, text_content, metadata, written, midnight) ==
  LET request == Body(project, version, None, None, text_content)
      resp == Response("inject", request, 0, "", "")
  IN
  /\ Free(w)
  /\ UNCHANGED <<cfg, indexes, delta_indexes, delta_disk, thread_disk, threads,
                 gate, call, acked, heap>>
  /\ IF ~(Truthy(project) /\ Truthy(version) /\ TruthyStr(text_content))
     THEN /\ written = WriteLen /\ ~midnight
          /\ last' = Response("inject", request, 400, "error", "Missing required fields")
          /\ UNCHANGED <<inject_log, next_uuid, today, inflight>>
     ELSE
       LET slug == get_slug(project[1], version[1])
           stamp == IF midnight THEN today + 1 ELSE today
           doc == [id |-> next_uuid + 2, text |-> text_content[1],
                   metadata |-> IF metadata = None THEN {} ELSE metadata[1]]
       IN
       /\ midnight => written >= OpenFailed
       /\ today' = stamp
       /\ inject_log' = append_to_jsonl(inject_log, project[1], version[1],
                                        text_content[1], metadata,
                                        next_uuid + 1, written, today, stamp)
       /\ next_uuid' = IF written = MkdirFailed THEN next_uuid
                       ELSE IF written < WriteLen THEN next_uuid + 1
                       ELSE next_uuid + 2
       /\ IF written = WriteLen
          THEN /\ Serve(w, [Idle EXCEPT !.pc = "lookup", !.resp = resp,
                                        !.doc = Some(doc)],
                        ServingSlug(slug))
               /\ last' = NoRequest
          ELSE \* append_to_jsonl raised, before or after it made the record
               /\ last' = Failure(resp, "append_to_jsonl")
               /\ UNCHANGED inflight

\* delta_index = delta_indexes.get(slug)
InjectLookup(w) ==
  LET request == inflight[w].resp.request
      slug == get_slug(request.project[1], request.version[1])
  IN
  /\ inflight[w].pc = "lookup"
  /\ inflight' = [inflight EXCEPT ![w].pc = "insert",
                                  ![w].delta_index = RegisteredIndex(slug)]
  /\ last' = NoRequest
  /\ UNCHANGED <<cfg, indexes, delta_indexes, delta_disk, inject_log, thread_disk,
                 threads, next_uuid, gate, today, call, acked, heap>>

\* delta_index.insert(doc) on the index the handler holds, or
\* VectorStoreIndex.from_documents([doc]) and its registration under the
\* slug; ~embedded: the embedding call raised
InjectInsert(w, embedded) ==
  LET resp == inflight[w].resp
      slug == get_slug(resp.request.project[1], resp.request.version[1])
      held == inflight[w].delta_index
      doc == inflight[w].doc[1]
  IN
  /\ inflight[w].pc = "insert"
  /\ UNCHANGED <<cfg, indexes, delta_disk, inject_log, thread_disk, threads,
                 next_uuid, gate, today, call, acked>>
  /\ IF ~embedded
     THEN /\ last' = Failure(resp, "insert")
          /\ Release(w)
          /\ UNCHANGED <<delta_indexes, heap>>
     ELSE IF held # 0
     THEN /\ heap' = [heap EXCEPT ![held] = InsertDocument(Some(heap[held]), doc)]
          /\ inflight' = [inflight EXCEPT ![w].pc = "persist"]
          /\ last' = NoRequest
          /\ UNCHANGED delta_indexes
     ELSE /\ heap' = Append(heap, InsertDocument(None, doc))
          /\ delta_indexes' = Put(delta_indexes, slug, Len(heap) + 1)
          /\ inflight' = [inflight EXCEPT ![w].pc = "persist",
                                          ![w].delta_index = Len(heap) + 1]
          /\ last' = NoRequest

\* how the persist of an inject request starts: mkdir raises and there is
\* no directory unless there was one; the first file cannot be opened in
\* the directory; or the files are being written
PersistStarts == {"mkdir_failed", "open_failed", "begun"}

\* delta_path.mkdir and the start of storage_context.persist
PersistBegin(w, outcome) ==
  LET resp == inflight[w].resp
      slug == get_slug(resp.request.project[1], resp.request.version[1])
  IN
  /\ inflight[w].pc = "persist"
  /\ UNCHANGED <<cfg, indexes, delta_indexes, inject_log, thread_disk, threads,
                 next_uuid, gate, today, call, acked, heap>>
  /\ delta_disk' =
       IF outcome = "mkdir_failed" THEN delta_disk
       ELSE IF outcome = "open_failed"
            THEN (IF slug \in DOMAIN delta_disk THEN delta_disk
                  ELSE Put(delta_disk, slug, Unloadable))
            ELSE Put(delta_disk, slug, Unloadable)
  /\ IF outcome = "begun"
     THEN /\ inflight' = [inflight EXCEPT ![w].pc = "persisting"]
          /\ last' = NoRequest
     ELSE /\ last' = Failure(resp, IF outcome = "mkdir_failed" THEN "mkdir" ELSE "persist")
          /\ Release(w)

\* the end of storage_context.persist and the response; ~written: a write
\* raised and the directory holds no index that loads
PersistEnd(w, written) ==
  LET resp == inflight[w].resp
      slug == get_slug(resp.request.project[1], resp.request.version[1])
      doc == inflight[w].doc[1]
  IN
  /\ inflight[w].pc = "persisting"
  /\ UNCHANGED <<cfg, indexes, delta_indexes, inject_log, thread_disk, threads,
                 next_uuid, gate, today, call, heap>>
  /\ Release(w)
  /\ IF written
     THEN /\ delta_disk' = Put(delta_disk, slug, Persisted(heap[inflight[w].delta_index]))
          /\ acked' = acked \cup {Answered200("inject", slug, doc.id, doc.text, "ok")}
          /\ last' = [resp EXCEPT !.status = 200, !.kind = "status", !.text = "ok",
                                  !.overlapped = inflight[w].overlapped]
     ELSE /\ delta_disk' = Put(delta_disk, slug, Unloadable)
          /\ last' = Failure(resp, "persist")
          /\ UNCHANGED acked

\* ------------------------------------------------------ crash and start
\* the requests in flight, with the position of each
InFlight ==
  {[op |-> inflight[w].resp.op, request |-> inflight[w].resp.request,
    pc |-> inflight[w].pc] : w \in {v \in Workers : inflight[v].pc # "idle"}}

\* the process stops while it serves requests: the memory of the process
\* is gone, the callers get no response, the files stay as they are
Crash ==
  /\ Running
  /\ InFlight # {}
  /\ delta_indexes' = <<>>
  /\ heap' = <<>>
  /\ threads' = <<>>
  /\ inflight' = [w \in Workers |-> Idle]
  /\ last' = [Response("crash", Body(None, None, None, None, None), 0, "crash", "")
                EXCEPT !.interrupted = InFlight]
  /\ UNCHANGED <<cfg, indexes, delta_disk, inject_log, thread_disk, next_uuid,
                 gate, today, call, acked>>

\* The process is started (after a crash or a stop): initialize_server
\* loads the base indexes again (STORAGE_ROOT is not written by the server)
\* and calls load_or_create_delta_index for the directories of DELTA_ROOT,
\* in the order iterdir lists them; the thread cache starts empty.  An
\* exception of one call leaves initialize_server: the directories before
\* it (`done`) were handled and there is no running server.
Restart ==
  \E loaded \in [DOMAIN delta_disk ->
                   UNION {load_or_create_delta_index(slug) : slug \in DOMAIN delta_disk}],
     done \in SUBSET (DOMAIN delta_disk) :
    LET raising == {slug \in DOMAIN delta_disk : loaded[slug].raised}
        registered == {slug \in DOMAIN delta_disk : loaded[slug].index # None}
        order == IF registered = {} THEN <<>>
                 ELSE CHOOSE o \in Orders(registered) : TRUE
    IN
    /\ \A w \in Workers : inflight[w].pc = "idle"
    /\ \A slug \in DOMAIN delta_disk : loaded[slug] \in load_or_create_delta_index(slug)
    /\ IF raising = {} THEN done = DOMAIN delta_disk ELSE done \cap raising = {}
    /\ delta_disk' = [slug \in DOMAIN delta_disk
                        |-> IF slug \in done /\ loaded[slug].persist # None
                            THEN loaded[slug].persist[1]
                            ELSE delta_disk[slug]]
    /\ threads' = <<>>
    /\ IF raising = {}
       THEN /\ heap' = [i \in 1..Len(order) |-> loaded[order[i]].index[1]]
            /\ delta_indexes' = [slug \in registered |->
                                   CHOOSE i \in 1..Len(order) : order[i] = slug]
            /\ last' = [Response("restart", Body(None, None, None, None, None), 0,
                                 IF Running THEN "started" ELSE "recovered", "")
                          EXCEPT !.interrupted = last.interrupted]
       ELSE /\ heap' = <<>>
            /\ delta_indexes' = <<>>
            /\ last' = [Response("restart", Body(None, None, None, None, None), 0,
                                 "start_failed", "")
                          EXCEPT !.interrupted = last.interrupted]
    /\ UNCHANGED <<cfg, indexes, inject_log, thread_disk, next_uuid, gate, today,
                   call, acked, inflight>>

\* ------------------------------------------------------------ the server
\* how many of the listed fields of a request are None or empty
Falsy(n) == IF n THEN 0 ELSE 1

\* The request bodies: every field valid, one field missing or empty, or
\* only the first field given (the bodies of the tests' missing-fields cases).
AnswerRequests ==
  {r \in [project : ProjectArgs, version : VersionArgs,
          thread_slug : ThreadArgs, message : MessageArgs] :
     \/ Falsy(Truthy(r.project)) + Falsy(Truthy(r.version))
          + Falsy(TruthyStr(r.thread_slug)) + Falsy(TruthyStr(r.message)) <= 1
     \/ (Truthy(r.project) /\ r.version = None /\ r.thread_slug = None
          /\ r.message = None)}

ElaborateRequests ==
  {r \in [thread_slug : ThreadArgs, message : MessageArgs] :
     \/ Falsy(TruthyStr(r.thread_slug)) + Falsy(TruthyStr(r.message)) <= 1
     \/ (r.thread_slug = None /\ r.message = None)}

InjectRequests ==
  {r \in [project : ProjectArgs, version : VersionArgs, textContent : TextArgs] :
     \/ Falsy(Truthy(r.project)) + Falsy(Truthy(r.version))
          + Falsy(TruthyStr(r.textContent)) <= 1
     \/ (Truthy(r.project) /\ r.version = None /\ r.textContent = None)}


\* The bound of the search on the length of a history: the longest list of
\* messages of the thread, in its file or held by a request that has loaded
\* it, and the exchanges of the requests that have not loaded it yet, are
\* fewer than limit exchanges.
ThreadWithin(limit, thread_slug) ==
  TruthyStr(thread_slug) =>
    LET serving == ServingThread(thread_slug[1])
        held == {Len(StoredMessages(thread_slug[1]))}
                  \cup {Len(inflight[v].thread_messages) : v \in serving}
        loading == {v \in serving : inflight[v].pc \in {"retrieve", "load"}}
    IN  (CHOOSE n \in held : \A m \in held : m <= n) + 2 * Cardinality(loading)
          < 2 * limit

\* The bound of the search on the number of injections: the two
\* identifiers of one more inject request stay within those of `limit`
\* requests.
InjectsWithin(limit) == next_uuid + 2 <= 2 * limit

\* the step hands a request to worker w (it did not reject it)
Accepts(w) == inflight'[w].pc # "idle"


\* the steps of the requests in flight that follow the first; dumps: how
\* far the json.dump of worker w can get
Continue(w, dumps) ==
  \/ /\ inflight[w].pc = "retrieve"
     /\ \E retrieved \in AnswerRetrieveInputs(w), reply \in Replies :
          AnswerRetrieve(w, retrieved, reply)
  \/ AnswerLoad(w)
  \/ \E opened \in BOOLEAN : SaveBegin(w, opened)
  \/ \E written \in dumps : SaveEnd(w, written)
  \/ CacheThread(w)
  \/ InjectLookup(w)
  \/ \E embedded \in BOOLEAN : InjectInsert(w, embedded)
  \/ \E outcome \in PersistStarts : PersistBegin(w, outcome)
  \/ \E written \in BOOLEAN : PersistEnd(w, written)

\* the steps of the requests in flight, with every outcome of their writes
Proceed(w) == Continue(w, DumpOutcomes(w))

Next ==
  \E w \in Workers :
    \/ \E r \in AnswerRequests :
         /\ AnswerReceive(w, r.project, r.version, r.thread_slug, r.message)
         /\ Accepts(w) => ThreadWithin(MaxCalls, r.thread_slug)
    \/ \E r \in ElaborateRequests, reply \in Replies :
         /\ ElaborateReceive(w, r.thread_slug, r.message, reply)
         /\ Accepts(w) => ThreadWithin(MaxCalls, r.thread_slug)
    \/ \E r \in InjectRequests, written \in WriteOutcomes, midnight \in BOOLEAN :
         /\ InjectReceive(w, r.project, r.version, r.textContent, None, written, midnight)
         /\ next_uuid' # next_uuid => InjectsWithin(MaxInjects)
    \/ Continue(w, DumpsWithin(w, MaxCut))

Spec == Init /\ [][Next]_vars

\* ------------------------------------------- the gate as a function
\* The inputs of one call of retrieve_with_confidence(base_index,
\* delta_index, query): any base corpus, any delta corpus or none, and any
\* results of the two retrievers.
GateInputs(k) ==
  UNION {
    {[called |-> FALSE,
      base_index |-> base_index, delta_index |-> delta_index,
      base_nodes |-> base_nodes, delta_nodes |-> delta_nodes,
      all_nodes |-> <<>>, nodes |-> <<>>, should_answer |-> FALSE] :
       base_nodes \in Retrieve(base_index, k, "base", ScoreOpt),
       delta_nodes \in (IF delta_index # None
                        THEN Retrieve(delta_index[1], k, "delta", ScoreOpt)
                        ELSE {<<>>})} :
    base_index \in BaseCorpora,
    delta_index \in {None} \cup {Some(d) : d \in DeltaCorpora}}

InitGate ==
  /\ cfg \in Configs
  /\ InitStores
  /\ last = NoRequest
  /\ gate \in GateInputs(cfg.TOP_K)
  /\ call = NoCall

\* the call: the merged, filtered nodes and the decision
RetrieveCall ==
  /\ ~gate.called
  /\ UNCHANGED <<inflight, heap, acked, cfg, indexes, delta_indexes, delta_disk, inject_log,
                 thread_disk, threads, next_uuid, last, today, call>>
  /\ LET r == retrieve_with_confidence(gate.base_nodes, gate.delta_index # None,
                                       gate.delta_nodes, cfg)
     IN  gate' = [gate EXCEPT !.called = TRUE,
                              !.all_nodes = r.all_nodes,
                              !.nodes = r.nodes,
                              !.should_answer = r.should_answer]

NextGate == RetrieveCall

SpecGate == InitGate /\ [][NextGate]_vars

\* --------------------------------------- exchanges served concurrently
\* exchanges a thread holds in one behaviour of SpecThreads
MaxExchanges == 2

\* valid answer requests (message q) and elaborate requests (message r) on
\* thread t1, two at a time, with every outcome of the retrievers and the
\* generation service; the writes of the thread file succeed
NextThreads ==
  \E w \in Workers :
    \/ /\ ThreadWithin(MaxExchanges, Some("t1"))
       /\ AnswerReceive(w, Some(<<"k">>), Some(<<"1", ".", "2">>), Some("t1"),
                        Some("q"))
    \/ \E reply \in Replies :
         /\ ThreadWithin(MaxExchanges, Some("t1"))
         /\ ElaborateReceive(w, Some("t1"), Some("r"), reply)
    \/ /\ inflight[w].pc = "retrieve"
       /\ \E retrieved \in AnswerRetrieveInputs(w), reply \in Replies :
            AnswerRetrieve(w, retrieved, reply)
    \/ AnswerLoad(w)
    \/ SaveBegin(w, TRUE)
    \/ SaveEnd(w, Len(DumpText(w)))
    \/ CacheThread(w)

SpecThreads == Init /\ [][NextThreads]_vars

\* ---------------------------------------- injects served concurrently
\* inject requests that reach the injection log in one behaviour of
\* SpecInjects
MaxInjected == 3


\* the steps of an inject request after the first, nothing failing
InjectProceeds(w) ==
  \/ InjectLookup(w)
  \/ InjectInsert(w, TRUE)
  \/ PersistBegin(w, "begun")
  \/ PersistEnd(w, TRUE)

\* valid inject requests for one slug, two at a time, nothing failing
NextInjects ==
  \E w \in Workers :
    \/ \E text_content \in {Some("X"), Some("Y")} :
         /\ InjectsWithin(MaxInjected)
         /\ InjectReceive(w, Some(<<"k">>), Some(<<"1", ".", "2">>), text_content,
                          None, WriteLen, FALSE)
    \/ InjectProceeds(w)

SpecInjects == Init /\ [][NextInjects]_vars

\* ------------------------------------------ injections and then answers
\* inject requests that reach the injection log in one behaviour of
\* SpecFresh, SpecDelta
MaxLogged == 2

\* valid requests
DeltaProjects == {Some(<<"k">>), Some(<<"u">>)}
DeltaVersions == {Some(<<"1", ".", "2">>)}
DeltaTexts == {Some("X"), Some("Y")}

\* the server without crashes and failing writes, with valid requests only:
\* injections, and answers on a thread that stays empty below its bound
NextFresh ==
  \E w \in Workers :
    \/ \E project \in DeltaProjects, version \in DeltaVersions,
          text_content \in DeltaTexts :
         /\ InjectsWithin(MaxLogged)
         /\ InjectReceive(w, project, version, text_content, None, WriteLen, FALSE)
    \/ InjectProceeds(w)
    \/ \E project \in DeltaProjects, version \in DeltaVersions :
         /\ ThreadWithin(MaxCalls, Some("t1"))
         /\ AnswerReceive(w, project, version, Some("t1"), Some("q"))
    \/ /\ inflight[w].pc = "retrieve"
       /\ \E retrieved \in AnswerRetrieveInputs(w), reply \in Replies :
            AnswerRetrieve(w, retrieved, reply)
    \/ AnswerLoad(w)
    \/ SaveBegin(w, TRUE)
    \/ SaveEnd(w, Len(DumpText(w)))
    \/ CacheThread(w)

SpecFresh == Init /\ [][NextFresh]_vars

\* ------------------------------------- the server with crashes and starts
\* the projects of SpecDelta: also one with "-" in its name, as the
\* "test-project" of the tests
CrashProjects == DeltaProjects \cup {Some(<<"t", "-", "p">>)}

\* inject requests with every outcome of their writes, crashes of the
\* process and starts
NextDelta ==
  \/ \E w \in Workers :
       \/ \E project \in CrashProjects, version \in DeltaVersions,
             text_content \in DeltaTexts, written \in WriteOutcomes :
            /\ InjectsWithin(MaxLogged)
            /\ InjectReceive(w, project, version, text_content, None, written, FALSE)
       \/ InjectLookup(w)
       \/ \E embedded \in BOOLEAN : InjectInsert(w, embedded)
       \/ \E outcome \in PersistStarts : PersistBegin(w, outcome)
       \/ \E written \in BOOLEAN : PersistEnd(w, written)
  \/ Crash
  \/ Restart

SpecDelta == Init /\ [][NextDelta]_vars

\* ------------------------------- answered injections, crashes and starts
\* the inject requests that reach the log in SpecDurable
MaxDurable == 3


\* valid inject requests whose writes succeed, crashes of the process and
\* starts
NextDurable ==
  \/ \E w \in Workers :
       \/ \E project \in {Some(<<"k">>), Some(<<"t", "-", "p">>)}, version \in DeltaVersions,
             text_content \in DeltaTexts :
            /\ InjectsWithin(MaxDurable)
            /\ InjectReceive(w, project, version, text_content, None, WriteLen, FALSE)
       \/ InjectProceeds(w)
  \/ Crash
  \/ Restart

SpecDurable == Init /\ [][NextDurable]_vars

\* ------------------------------------- the injection log as functions
\* calls of append_to_jsonl in one behaviour, and the days they span
MaxRecords == 2
MaxDay == 2


\* a call of append_to_jsonl; written: how far it gets (MkdirFailed: mkdir
\* raised, before the clock is read and the identifier is drawn;
\* OpenFailed: open raised, after the record was made; fewer than WriteLen
\* tokens: the write was cut short, the storage failed or the process was
\* stopped in the middle of it); midnight: the day changes between the two
\* readings of the clock
AppendCall(project, version, text, metadata, written, midnight) ==
  LET stamp == IF midnight THEN today + 1 ELSE today IN
  /\ ~call.called
  /\ next_uuid < MaxRecords
  /\ stamp <= MaxDay
  /\ midnight => written >= OpenFailed
  /\ inject_log' = append_to_jsonl(inject_log, project, version, text, metadata,
                                   next_uuid + 1, written, today, stamp)
  /\ next_uuid' = IF written = MkdirFailed THEN next_uuid ELSE next_uuid + 1
  /\ today' = stamp
  /\ UNCHANGED <<inflight, heap, acked, cfg, indexes, delta_indexes, delta_disk, thread_disk, threads,
                 last, gate, call>>

\* midnight passes between two calls: the next record goes to a new file
DayPasses ==
  /\ ~call.called
  /\ today < MaxDay
  /\ today' = today + 1
  /\ UNCHANGED <<inflight, heap, acked, cfg, indexes, delta_indexes, delta_disk, inject_log,
                 thread_disk, threads, next_uuid, last, gate, call>>

\* a call of load_injected_documents
LoadCall(project, version) ==
  /\ ~call.called
  /\ \E result \in load_injected_documents(project, version) :
       call' = [called |-> TRUE, project |-> project, version |-> version,
                raised |-> result.raised, documents |-> result.documents]
  /\ UNCHANGED <<inflight, heap, acked, cfg, indexes, delta_indexes, delta_disk, inject_log,
                 thread_disk, threads, next_uuid, last, gate, today>>

\* an inject request that succeeds: a record and a persisted delta index
InjectCall(w, project, version, text_content) ==
  /\ ~call.called
  /\ \/ /\ next_uuid < MaxRecords
        /\ InjectReceive(w, Some(project), Some(version), Some(text_content),
                         None, WriteLen, FALSE)
     \/ InjectProceeds(w)

NextLog ==
  \/ \E text \in {"X", "Y"},
        metadata \in {None, Some({}), Some({<<"source", "wiki">>})},
        written \in WriteOutcomes,
        midnight \in BOOLEAN :
       AppendCall(<<"k">>, <<"1", ".", "2">>, text, metadata, written, midnight)
  \/ \E w \in Workers : InjectCall(w, <<"k">>, <<"1", ".", "2">>, "X")
  \/ DayPasses
  \/ \E project \in {<<"k">>, <<"u">>} : LoadCall(project, <<"1", ".", "2">>)

SpecLog == Init /\ [][NextLog]_vars

\* ------------------------------------------ the slug functions
\* pieces a version string of a call is put together from
MaxVersionParts == 3
VersionParts == {<<".">>, <<"-">>, <<"1">>, <<"-", "d", "o", "t">>}

RECURSIVE Concatenations(_, _)
\* the strings made of at most n of the parts
Concatenations(parts, n) ==
  IF n = 0 THEN {<<>>}
  ELSE LET shorter == Concatenations(parts, n - 1)
       IN  shorter \cup {s \o part : s \in shorter, part \in parts}

SlugVersions == Concatenations(VersionParts, MaxVersionParts)

\* project names, with and without "-"
SlugProjects ==
  {<<"a">>, <<"b">>, <<"a", "1">>, <<"a", "-", "1">>,
   <<"a", "-", "-", "d", "o", "t">>}

InitSlug ==
  /\ cfg \in ServerConfigs
  /\ InitStores
  /\ last = NoRequest
  /\ gate = NoCall
  /\ call \in [called : {FALSE}, project : SlugProjects, version : SlugVersions]

\* get_slug(project, version), and the version part normalised and turned
\* back
SlugCall ==
  /\ ~call.called
  /\ UNCHANGED <<inflight, heap, acked, cfg, indexes, delta_indexes, delta_disk, inject_log,
                 thread_disk, threads, next_uuid, last, gate, today>>
  /\ call' = [called |-> TRUE, project |-> call.project, version |-> call.version,
              slug |-> get_slug(call.project, call.version),
              version_slug |-> normalize_version(call.version),
              version_back |-> denormalize_version(normalize_version(call.version))]

NextSlug == SlugCall

SpecSlug == InitSlug /\ [][NextSlug]_vars

\* =================================================================
\* Properties of the confidence gate, checked under SpecGate
\* =================================================================

RECURSIVE PresentScores(_)
\* the scores of the nodes that have one, in order
PresentScores(nodes) ==
  IF nodes = <<>> THEN <<>>
  ELSE (IF Head(nodes).score = None THEN <<>> ELSE <<Head(nodes).score[1]>>)
       \o PresentScores(Tail(nodes))

\* the mean of a non-empty sequence of scores, as the gate computes it (the
\* scores added from the left as floats, the sum divided by their number),
\* is at least t
MeanAtLeast(scores, t) == ~FloatLess(mean_score(scores), Float(t))

\* the computed mean of a non-empty sequence of scores is t
MeanIs(scores, t) ==
  /\ ~FloatLess(mean_score(scores), Float(t))
  /\ ~FloatLess(Float(t), mean_score(scores))

RECURSIVE TenthsSum(_)
\* the sum of the decimals the scores are written as, in tenths
TenthsSum(scores) == IF scores = <<>> THEN 0 ELSE Head(scores) + TenthsSum(Tail(scores))

\* the mean of the decimals of a non-empty sequence of scores, without
\* rounding, is at least t
ExactMeanAtLeast(scores, t) == TenthsSum(scores) >= t * Len(scores)

\* how many nodes of a sequence satisfy P
CountNodes(nodes, P(_)) == Cardinality({i \in 1..Len(nodes) : P(nodes[i])})

\* C1: for every minHits > 0, when fewer than minHits candidates survive the
\* similarity cutoff the gate returns shouldAnswer = false, whatever the
\* scores of the survivors are.
C1_TooFewHitsAbstains ==
  (gate.called /\ cfg.MIN_HITS > 0 /\ Len(gate.nodes) < cfg.MIN_HITS)
    => gate.should_answer = FALSE

\* a call where one candidate with the highest score survived, two were
\* needed, and the mean floor was met
C1_Witness ==
  /\ gate.called
  /\ cfg.MIN_HITS = 2
  /\ Len(gate.nodes) = 1
  /\ gate.nodes[1].score = Some(7)
  /\ cfg.CONFIDENCE_THRESHOLD <= 7
  /\ gate.should_answer = FALSE

\* C2 (as claimed): for every merged list, candidates without a score
\* included, whose defined scores are all >= similarityCutoff with a mean
\* >= confidenceThreshold and whose length is >= minHits, the gate returns
\* shouldAnswer = true and the accepted list is the merged list unchanged.
C2_Claimed_SatisfiedListPassesUnchanged ==
  (/\ gate.called
   /\ PresentScores(gate.all_nodes) # <<>>
   /\ \A i \in 1..Len(gate.all_nodes) :
        gate.all_nodes[i].score # None
          => gate.all_nodes[i].score[1] >= cfg.SIMILARITY_CUTOFF
   /\ MeanAtLeast(PresentScores(gate.all_nodes), cfg.CONFIDENCE_THRESHOLD)
   /\ Len(gate.all_nodes) >= cfg.MIN_HITS)
    => (gate.should_answer = TRUE /\ gate.nodes = gate.all_nodes)

\* C3 (as claimed): the filter removes exactly the candidates whose score is
\* present and below similarityCutoff; a candidate without a score stays in
\* the accepted list.
C3_Claimed_AbsentScoresRetained ==
  gate.called
    => gate.nodes = SelectSeq(gate.all_nodes,
                      LAMBDA n : n.score = None
                                 \/ n.score[1] >= cfg.SIMILARITY_CUTOFF)

\* C4 as claimed: the checks are strict: a candidate whose score equals the
\* cutoff is kept, a count equal to minHits passes, a mean score equal to
\* confidenceThreshold passes, and the gate abstains only when the count is
\* below minHits or the mean is below confidenceThreshold; the mean is the
\* mean of the scores as numbers.
C4_Claimed_ExactMeanAtThresholdPasses ==
  gate.called =>
    LET scores == PresentScores(gate.nodes)
        atCutoff(n) == n.score = Some(cfg.SIMILARITY_CUTOFF)
    IN  /\ CountNodes(gate.nodes, atCutoff) = CountNodes(gate.all_nodes, atCutoff)
        /\ (Len(gate.nodes) = cfg.MIN_HITS
            /\ (scores = <<>> \/ ExactMeanAtLeast(scores, cfg.CONFIDENCE_THRESHOLD)))
             => gate.should_answer = TRUE
        /\ (Len(gate.nodes) >= cfg.MIN_HITS /\ scores # <<>>
            /\ TenthsSum(scores) = cfg.CONFIDENCE_THRESHOLD * Len(scores))
             => gate.should_answer = TRUE
        /\ gate.should_answer = FALSE
             => \/ Len(gate.nodes) < cfg.MIN_HITS
                \/ (scores # <<>>
                    /\ ~ExactMeanAtLeast(scores, cfg.CONFIDENCE_THRESHOLD))

\* C4: the checks are strict on the values the gate computes: a candidate
\* whose score equals the cutoff is kept, a count equal to minHits passes,
\* a mean score that equals confidenceThreshold as the float sum(scores) /
\* len(scores) passes, and the gate abstains only when the count is below
\* minHits or that float is below confidenceThreshold.
C4_StrictOnComputedMean ==
  gate.called =>
    LET scores == PresentScores(gate.nodes)
        atCutoff(n) == n.score = Some(cfg.SIMILARITY_CUTOFF)
    IN  /\ CountNodes(gate.nodes, atCutoff) = CountNodes(gate.all_nodes, atCutoff)
        /\ (Len(gate.nodes) = cfg.MIN_HITS
            /\ (scores = <<>> \/ MeanAtLeast(scores, cfg.CONFIDENCE_THRESHOLD)))
             => gate.should_answer = TRUE
        /\ (Len(gate.nodes) >= cfg.MIN_HITS /\ scores # <<>>
            /\ MeanIs(scores, cfg.CONFIDENCE_THRESHOLD))
             => gate.should_answer = TRUE
        /\ gate.should_answer = FALSE
             => \/ Len(gate.nodes) < cfg.MIN_HITS
                \/ (scores # <<>>
                    /\ ~MeanAtLeast(scores, cfg.CONFIDENCE_THRESHOLD))

\* a call answered with the count at minHits, the computed mean of two
\* scores of 0.7 at the floor 0.7 and both candidates at the cutoff
C4_Witness ==
  /\ gate.called
  /\ cfg.MIN_HITS = 2
  /\ Len(gate.nodes) = 2
  /\ cfg.SIMILARITY_CUTOFF = 7
  /\ cfg.CONFIDENCE_THRESHOLD = 7
  /\ gate.nodes[1].score = Some(7)
  /\ gate.nodes[2].score = Some(7)
  /\ MeanIs(PresentScores(gate.nodes), cfg.CONFIDENCE_THRESHOLD)
  /\ gate.should_answer = TRUE

\* C5: once the minimum-hits check has passed, the decision is the mean of
\* the defined scores of the accepted candidates against
\* confidenceThreshold; with no defined score (the empty accepted list with
\* minHits <= 0 included) the check is skipped and the gate answers.
C5_MeanOverDefinedScores ==
  (gate.called /\ Len(gate.nodes) >= cfg.MIN_HITS) =>
    LET scores == PresentScores(gate.nodes)
    IN  /\ scores = <<>> => gate.should_answer = TRUE
        /\ scores # <<>>
             => (gate.should_answer
                   <=> MeanAtLeast(scores, cfg.CONFIDENCE_THRESHOLD))

\* a call with minHits = 0, a positive confidence floor and nothing accepted
C5_Witness ==
  /\ gate.called
  /\ cfg.MIN_HITS = 0
  /\ cfg.CONFIDENCE_THRESHOLD > 0
  /\ gate.all_nodes # <<>>
  /\ gate.nodes = <<>>
  /\ gate.should_answer = TRUE

\* C6: the merged list is the base results followed by the delta results
\* (none without a delta index), not re-ranked and not deduplicated; its
\* length is at most 2k, and at most k without a delta index.
C6_MergeIsConcatenation ==
  gate.called =>
    LET nb == Len(gate.base_nodes)
        nd == IF gate.delta_index # None THEN Len(gate.delta_nodes) ELSE 0
    IN  /\ Len(gate.all_nodes) = nb + nd
        /\ \A i \in 1..nb : gate.all_nodes[i] = gate.base_nodes[i]
        /\ \A j \in 1..nd : gate.all_nodes[nb + j] = gate.delta_nodes[j]
        /\ Len(gate.all_nodes) <= 2 * cfg.TOP_K
        /\ gate.delta_index = None => Len(gate.all_nodes) <= cfg.TOP_K

\* a call where a chunk of both indexes is in the merged list twice, the
\* base copy first although the delta copy scores higher, and the base
\* index has more chunks than k
C6_Witness ==
  /\ gate.called
  /\ Len(gate.base_index) > cfg.TOP_K
  /\ Len(gate.all_nodes) = 2 * cfg.TOP_K
  /\ \E i \in 1..Len(gate.all_nodes) : \E j \in 1..Len(gate.all_nodes) :
       /\ i < j
       /\ gate.all_nodes[i].text = gate.all_nodes[j].text
       /\ gate.all_nodes[i].src = "base"
       /\ gate.all_nodes[j].src = "delta"
       /\ gate.all_nodes[i].score = Some(0)
       /\ gate.all_nodes[j].score = Some(7)

\* =================================================================
\* Properties of the request handlers, checked under Spec
\* =================================================================

\* the messages stored for a thread
History(thread_slug) == StoredMessages(thread_slug)

\* C7: when the gate returned shouldAnswer = false the answer is exactly
\* "I don't know." and the generation service was not called; when it
\* returned true the service was called exactly once and the text it
\* returned is the response, unmodified.
C7_AbstainWithoutGeneration ==
  last.op = "answer" =>
    /\ last.should_answer = Some(FALSE)
         => /\ last.gen_calls = 0
            /\ last.response_text = Some("I don't know.")
            /\ last.status = 200
                 => (last.kind = "textResponse" /\ last.text = "I don't know.")
    /\ last.should_answer = Some(TRUE)
         => /\ last.gen_calls = 1
            /\ last.status = 200
                 => (last.kind = "textResponse" /\ last.gen_text = Some(last.text))

\* an abstaining answer, after retrievals from both indexes, returned and
\* stored in the history of its thread
C7_Witness ==
  /\ last.op = "answer"
  /\ last.status = 200
  /\ last.should_answer = Some(FALSE)
  /\ last.retrievals = 2
  /\ last.text = "I don't know."
  /\ History("t1") = <<Message("user", "q"), Message("assistant", "I don't know.")>>

\* C8: when shouldAnswer = true the context block is the texts of the
\* accepted candidates in the merger's order, base candidates before delta
\* candidates, joined by exactly a double newline.
C8_ContextIsJoinedTexts ==
  (last.op = "answer" /\ last.should_answer = Some(TRUE)
     /\ (last.kind = "retrieved" \/ last.raised_at = "generate")) =>
    LET n == Len(last.nodes)
    IN  /\ Len(last.context) = IF n = 0 THEN 0 ELSE 2 * n - 1
        /\ \A i \in 1..n : last.context[2 * i - 1] = last.nodes[i].text
        /\ \A i \in 1..(n - 1) : last.context[2 * i] = "\n\n"
        /\ \A i \in 1..n : \A j \in 1..n :
             (last.nodes[i].src = "base" /\ last.nodes[j].src = "delta") => i < j

\* an answer being generated from the base chunks A and B and the injected X
C8_Witness ==
  /\ last.op = "answer"
  /\ last.kind = "retrieved"
  /\ last.should_answer = Some(TRUE)
  /\ last.context = <<"A", "\n\n", "B", "\n\n", "X">>
  /\ last.response_text = Some("G")

\* a field holding a project or a version is missing or empty
Blank(field) == field = None \/ field = Some(<<>>)
\* a field holding a thread, a message or a text is missing or empty
BlankStr(field) == field = None \/ field = Some("")

\* the request of a response is an answer request with every field given
\* whose slug has no base index
AnswerForUnknownSlug(l) ==
  /\ l.op = "answer"
  /\ ~Blank(l.request.project) /\ ~Blank(l.request.version)
  /\ ~BlankStr(l.request.thread_slug) /\ ~BlankStr(l.request.message)
  /\ get_slug(l.request.project[1], l.request.version[1]) \notin DOMAIN indexes

\* C9: an answer call whose slug has no base index fails with 404 and an
\* error field, also when a delta index exists for the slug; it changes
\* neither the thread history (stored or cached) nor the registries nor
\* the injection log, and calls neither a retriever nor the generator.
C9_UnknownSlugNotFound ==
  [][AnswerForUnknownSlug(last')
       => /\ last'.status = 404
          /\ last'.kind = "error"
          /\ last'.retrievals = 0
          /\ last'.gen_calls = 0
          /\ UNCHANGED <<thread_disk, threads, indexes, delta_indexes, heap,
                         delta_disk, inject_log, inflight>>]_vars

\* a 404 for a slug that has a delta index and a stored injection, on a
\* server whose thread history is not empty
C9_Witness ==
  /\ AnswerForUnknownSlug(last)
  /\ last.status = 404
  /\ last.text = "No index found for u/1.2"
  /\ get_slug(last.request.project[1], last.request.version[1])
       \in DOMAIN delta_indexes
  /\ get_slug(last.request.project[1], last.request.version[1])
       \in DOMAIN delta_disk
  /\ History("t1") # <<>>

\* a required field of the request of a response is missing or empty
MissingField(l) ==
  \/ l.op = "answer"
     /\ (Blank(l.request.project) \/ Blank(l.request.version)
         \/ BlankStr(l.request.thread_slug) \/ BlankStr(l.request.message))
  \/ l.op = "elaborate"
     /\ (BlankStr(l.request.thread_slug) \/ BlankStr(l.request.message))
  \/ l.op = "inject"
     /\ (Blank(l.request.project) \/ Blank(l.request.version)
         \/ BlankStr(l.request.textContent))

\* C10: an answer, elaborate or inject call with a required field missing
\* or empty fails with 400 and an error field and has no side effect: thread
\* history, injection log, delta registry and persisted delta index are
\* unchanged and the generator is not called.
C10_MissingFieldsRejected ==
  [][MissingField(last')
       => /\ last'.status = 400
          /\ last'.kind = "error"
          /\ last'.gen_calls = 0
          /\ last'.retrievals = 0
          /\ UNCHANGED <<thread_disk, threads, inject_log, delta_indexes, heap,
                         delta_disk, indexes, next_uuid, inflight>>]_vars

\* an inject request with an empty (not missing) project, rejected on a
\* server that holds a thread history and an injected chunk
C10_Witness ==
  /\ last.op = "inject"
  /\ last.request.project = Some(<<>>)
  /\ ~Blank(last.request.version)
  /\ ~BlankStr(last.request.textContent)
  /\ last.status = 400
  /\ History("t1") # <<>>
  /\ DOMAIN delta_disk # {}
  /\ DOMAIN inject_log # {}

\* C18: a failure of the generation service during an answer or elaborate
\* call reaches the caller as a failure: the call never returns a
\* successful response, in particular not the text "I don't know.", because
\* the provider failed, and it does not extend the thread history.
C18_GenerationFailureSurfaces ==
  [][(last'.op \in {"answer", "elaborate"}
        /\ last'.gen_calls = 1 /\ last'.gen_text = None)
       => /\ last'.status = 500
          /\ last'.kind = "error"
          /\ last'.text # "I don't know."
          /\ last'.response_text = None
          /\ \A w \in Workers : inflight'[w].pc = "idle" \/ inflight'[w] = inflight[w]
          /\ UNCHANGED <<thread_disk, threads>>]_vars

\* an answer whose gate said yes and whose generation call failed, while
\* an inject request is being served
C18_Witness ==
  /\ last.op = "answer"
  /\ last.should_answer = Some(TRUE)
  /\ last.gen_calls = 1
  /\ last.gen_text = None
  /\ last.status = 500
  /\ last.raised_at = "generate"
  /\ \E w \in Workers : inflight[w].pc = "insert"

\* =================================================================
\* Properties of the thread history, checked under SpecThreads
\* =================================================================

\* the response is a successful answer or elaborate
Answered(l) ==
  /\ l.op \in {"answer", "elaborate"}
  /\ l.status = 200

\* C11: a successful answer or elaborate call (calls on a thread do not
\* overlap) leaves the thread's stored history equal to the history before
\* the call followed by the user message as given and the assistant message
\* with the returned text (the abstention included); no earlier message
\* changes, no other thread changes, and the cached history equals the
\* stored one afterwards.
C11_HistoryGrowsByExchange ==
  [][(Answered(last') /\ ~last'.overlapped)
       => LET t == last'.request.thread_slug[1]
              before == last'.before
              after == thread_disk'[t].messages
          IN  /\ thread_disk'[t].parses
              /\ Len(after) = Len(before) + 2
              /\ \A i \in 1..Len(before) : after[i] = before[i]
              /\ after[Len(before) + 1]
                   = Message("user", last'.request.message[1])
              /\ after[Len(before) + 2]
                   = Message("assistant", last'.text)
              /\ t \in DOMAIN threads' /\ threads'[t] = after
              /\ DOMAIN thread_disk' = {t}
              /\ thread_disk' = thread_disk]_vars

\* an abstention stored behind an earlier generated exchange, neither call
\* overlapping another, the cache holding the same four messages
C11_Witness ==
  /\ Answered(last)
  /\ ~last.overlapped
  /\ last.op = "answer"
  /\ last.text = "I don't know."
  /\ last.before = <<Message("user", "r"),
                     Message("assistant", "G")>>
  /\ History("t1") = <<Message("user", "r"),
                       Message("assistant", "G"),
                       Message("user", "q"),
                       Message("assistant", "I don't know.")>>
  /\ threads["t1"] = History("t1")

\* no request is in flight
NoneInFlight == \A w \in Workers : inflight[w].pc = "idle"

\* the answered answer and elaborate requests of a thread
Exchanges(thread_slug) ==
  {a \in acked : a.op \in {"answer", "elaborate"} /\ a.slug = thread_slug}

\* C22 as claimed: when answer and elaborate calls on one thread were in
\* flight together, after all of them returned the stored history holds the
\* user and the assistant message of every call.
C22_Claimed_NoExchangeLost ==
  NoneInFlight =>
    \A a \in Exchanges("t1") :
      \E i \in 1..(Len(History("t1")) - 1) :
        /\ History("t1")[i] = Message("user", a.text)
        /\ History("t1")[i + 1] = Message("assistant", a.response)

\* =================================================================
\* Properties of the slug functions, checked under SpecSlug
\* =================================================================

Marker == <<"-", "d", "o", "t", "-">>

\* C16 as claimed: get_slug(p, "") is p, and for every non-empty version
\* that does not contain "-dot-", replacing "-dot-" by "." in
\* normalize_version(v) gives v back.
C16_Claimed_MarkerFreeRoundTrip ==
  call.called =>
    /\ call.version = <<>> => call.slug = call.project
    /\ (call.version # <<>> /\ ~Contains(call.version, Marker))
         => call.version_back = call.version

\* "-dot" directly before a "."
MarkerBeforeDot == <<"-", "d", "o", "t", ".">>

\* C16, amended: get_slug(p, "") is p, and for every non-empty version
\* that contains neither "-dot-" nor "-dot" directly before a ".",
\* replacing "-dot-" by "." in normalize_version(v) gives v back.
C16_MarkerSafeRoundTrip ==
  call.called =>
    /\ call.version = <<>> => call.slug = call.project
    /\ (call.version # <<>> /\ ~Contains(call.version, Marker)
          /\ ~Contains(call.version, MarkerBeforeDot))
         => call.version_back = call.version

\* the version "-dot1.", with a "-" and a "-dot" that is not directly
\* before the ".", normalised to "-dot1-dot-" and turned back
C16_Witness ==
  /\ call.called
  /\ call.version = <<"-", "d", "o", "t", "1", ".">>
  /\ ~Contains(call.version, Marker)
  /\ ~Contains(call.version, MarkerBeforeDot)
  /\ call.version_slug = <<"-", "d", "o", "t", "1">> \o Marker
  /\ call.version_back = call.version

\* C17 as claimed: two distinct (project, version) pairs whose versions do
\* not contain "-" never get the same slug.
C17_Claimed_InjectiveOnHyphenFreeVersions ==
  (call.called /\ ~Contains(call.version, <<"-">>)) =>
    \A p \in SlugProjects, v \in SlugVersions :
      (~Contains(v, <<"-">>) /\ <<p, v>> # <<call.project, call.version>>)
        => get_slug(p, v) # call.slug

\* C17, amended: two distinct (project, version) pairs whose projects and
\* versions do not contain "-" never get the same slug.
C17_InjectiveOnHyphenFreePairs ==
  (call.called /\ ~Contains(call.version, <<"-">>)
     /\ ~Contains(call.project, <<"-">>)) =>
    \A p \in SlugProjects, v \in SlugVersions :
      (~Contains(v, <<"-">>) /\ ~Contains(p, <<"-">>)
         /\ <<p, v>> # <<call.project, call.version>>)
        => get_slug(p, v) # call.slug

\* the slug of project "a" and version "1", which only the "-" tells from
\* the slug of project "a1" without a version
C17_Witness ==
  /\ call.called
  /\ call.project = <<"a">>
  /\ call.version = <<"1">>
  /\ call.slug = <<"a", "-", "1">>
  /\ get_slug(<<"a", "1">>, <<>>) = <<"a", "1">>

\* =================================================================
\* Properties of the injection log, checked under SpecLog
\* =================================================================

\* the content is whole writes only: brace, fields, brace, newline
WholeWrites(content) ==
  /\ Len(content) % 4 = 0
  /\ \A i \in 1..Len(content) :
       content[i].t = (CASE i % 4 = 1 -> "{" [] i % 4 = 2 -> "fields"
                         [] i % 4 = 3 -> "}" [] OTHER -> "\n")

\* the records of a content of whole writes, in the order of the file
WrittenRecords(content) ==
  [i \in 1..(Len(content) \div 4) |-> content[4 * i - 2].v]

\* the documents hold, from position offset + 1 on, the records in order
HoldsAt(documents, offset, records) ==
  /\ offset + Len(records) <= Len(documents)
  /\ \A i \in 1..Len(records) :
       /\ documents[offset + i].text = records[i].text
       /\ documents[offset + i].metadata = records[i].metadata

\* the files load_injected_documents was called for
CalledFiles == FilesOf(InjectDir(call.project, call.version))

\* the number of tokens in the files the call was for
CalledTokens ==
  LET Sum[files \in SUBSET CalledFiles] ==
        IF files = {} THEN 0
        ELSE LET file == CHOOSE f \in files : TRUE
             IN  Len(inject_log[file]) + Sum[files \ {file}]
  IN  Sum[CalledFiles]

\* C13: after N records were written to the log of a (project, version)
\* pair, load_injected_documents returns exactly N chunks whose texts and
\* metadata are the records', in the order of the appends within each file,
\* whatever delta index is persisted for the slug.
C13_ReconstructionMatchesLog ==
  (call.called /\ \A file \in CalledFiles : WholeWrites(inject_log[file])) =>
    /\ ~call.raised
    /\ 4 * Len(call.documents) = CalledTokens
    /\ \A file \in CalledFiles :
         \E offset \in 0..Len(call.documents) :
           HoldsAt(call.documents, offset, WrittenRecords(inject_log[file]))

\* two records with different texts and metadata in the file of day 1,
\* read back in that order, while the persisted delta index of the slug
\* holds one chunk only
C13_Witness ==
  /\ call.called
  /\ call.project = <<"k">>
  /\ ~call.raised
  /\ Len(call.documents) = 2
  /\ call.documents[1].text = "Y" /\ call.documents[1].metadata = {<<"source", "wiki">>}
  /\ call.documents[2].text = "X" /\ call.documents[2].metadata = {}
  /\ KnownSlug \in DOMAIN delta_disk
  /\ Len(delta_disk[KnownSlug].chunks) = 1

\* the lines of the files of the call that are one complete object
ParseableLines ==
  LET Count(file) ==
        LET lines == SplitLines(inject_log[file], <<>>)
        IN  Cardinality({i \in 1..Len(lines) : json_loads(lines[i]) # None})
      Sum[files \in SUBSET CalledFiles] ==
        IF files = {} THEN 0
        ELSE LET file == CHOOSE f \in files : TRUE
             IN  Count(file) + Sum[files \ {file}]
  IN  Sum[CalledFiles]

\* C14 as claimed: a line that does not parse is skipped and the
\* reconstruction goes on with the following lines; a malformed line never
\* aborts it.
C14_Claimed_MalformedLineSkipped ==
  call.called =>
    /\ ~call.raised
    /\ Len(call.documents) = ParseableLines

\* =================================================================
\* Properties of injection, crash and start, checked under SpecDelta
\* =================================================================

\* the delta registry with the chunks of the registered index objects
Registry == [slug \in DOMAIN delta_indexes |-> heap[delta_indexes[slug]]]

\* the records written whole to a content: an opening brace, the fields
\* and a closing brace, whatever was written to the line before them
WrittenObjects(content) ==
  {content[i + 1].v :
     i \in {j \in 1..(Len(content) - 2) :
              /\ content[j] = ObjectOpen
              /\ content[j + 1].t = "fields"
              /\ content[j + 2] = ObjectClose}}

\* the records in the files of the log of a (project, version) pair
LoggedRecords(log, project, version) ==
  UNION {WrittenObjects(log[file]) :
           file \in {f \in DOMAIN log : f[1] = project /\ f[2] = normalize_version(version)}}

\* the (project, version) pairs of the requests
DeltaPairs == {<<project[1], version[1]>> : project \in CrashProjects, version \in DeltaVersions}

\* every chunk of the delta indexes, registered and persisted, has a record
\* with its text in the log of its slug
LogCoversDelta(log, registry, disk) ==
  /\ \A slug \in DOMAIN registry \cup DOMAIN disk :
       \E pair \in DeltaPairs : get_slug(pair[1], pair[2]) = slug
  /\ \A pair \in DeltaPairs :
       LET slug == get_slug(pair[1], pair[2])
           texts == {record.text : record \in LoggedRecords(log, pair[1], pair[2])}
       IN  /\ slug \in DOMAIN registry
                => \A i \in 1..Len(registry[slug]) : registry[slug][i].text \in texts
           /\ slug \in DOMAIN disk
                => \A i \in 1..Len(disk[slug].chunks) : disk[slug].chunks[i].text \in texts

\* the number of tokens in the files of a log
TokensIn(log) ==
  LET Sum[files \in SUBSET DOMAIN log] ==
        IF files = {} THEN 0
        ELSE LET file == CHOOSE f \in files : TRUE
             IN  Len(log[file]) + Sum[files \ {file}]
  IN  Sum[DOMAIN log]

\* the step hands an inject request to worker w: it is past append_to_jsonl
TakesInject(w) ==
  /\ inflight[w].pc = "idle"
  /\ inflight'[w].pc # "idle"
  /\ inflight'[w].resp.op = "inject"

\* the step wrote one whole line with the text to the end of the file of
\* today's date in the log of the pair, and nothing else to the log
AppendsLine(project, version, text) ==
  LET file == <<project, normalize_version(version), today>>
      before == IF file \in DOMAIN inject_log THEN inject_log[file] ELSE <<>>
      after == inject_log'[file]
  IN  /\ TokensIn(inject_log') = TokensIn(inject_log) + 4
      /\ Len(after) = Len(before) + 4
      /\ SubSeq(after, 1, Len(before)) = before
      /\ after[Len(before) + 1].t = "{"
      /\ after[Len(before) + 2].t = "fields"
      /\ after[Len(before) + 2].v.text = text
      /\ after[Len(before) + 3].t = "}"
      /\ after[Len(before) + 4].t = "\n"

\* C12: an inject call appends its record to the log before it touches the
\* delta index or the registry; when the write fails the request fails and
\* delta index, registry and persisted delta index are unchanged; so in
\* every reachable state every chunk of a delta index has a record with the
\* same text in the injection log of its slug.
C12_RecordBeforeIndex ==
  [][/\ \A w \in Workers :
          TakesInject(w)
            => /\ AppendsLine(inflight'[w].resp.request.project[1],
                              inflight'[w].resp.request.version[1],
                              inflight'[w].resp.request.textContent[1])
               /\ UNCHANGED <<delta_indexes, heap, delta_disk>>
     /\ (last'.op = "inject" /\ last'.raised_at = "append_to_jsonl")
          => /\ last'.status = 500
             /\ inflight' = inflight
             /\ UNCHANGED <<delta_indexes, heap, delta_disk>>
     /\ LogCoversDelta(inject_log', Registry', delta_disk')]_vars

\* the write of the first injection was cut short before the closing brace
\* and the request failed, the second one reached log, registry and disk
C12_Witness ==
  /\ <<<<"k">>, normalize_version(<<"1", ".", "2">>), 1>> \in DOMAIN inject_log
  /\ Len(inject_log[<<<<"k">>, normalize_version(<<"1", ".", "2">>), 1>>]) = 2 + WriteLen
  /\ KnownSlug \in DOMAIN delta_indexes
  /\ Len(DeltaChunks(KnownSlug)) = 1
  /\ DeltaChunks(KnownSlug)[1].text = "Y"
  /\ KnownSlug \in DOMAIN delta_disk
  /\ delta_disk[KnownSlug] = Persisted(DeltaChunks(KnownSlug))
  /\ last.op = "inject" /\ last.status = 200

\* C15 as claimed: the identifier written in the record of an inject call
\* is the identifier of the chunk the call inserts into the delta index, so
\* every chunk of a registered delta index has a record with its identifier
\* and text in the log of its slug.
C15_Claimed_RecordIdIsChunkId ==
  \A pair \in DeltaPairs :
    LET slug == get_slug(pair[1], pair[2]) IN
    slug \in DOMAIN delta_indexes =>
      \A i \in 1..Len(DeltaChunks(slug)) :
        \E record \in LoggedRecords(inject_log, pair[1], pair[2]) :
          /\ record.id = DeltaChunks(slug)[i].id
          /\ record.text = DeltaChunks(slug)[i].text

\* the inject requests a crash ended after their record was appended and
\* before the delta index was persisted
EndedBeforePersist(l) ==
  {r \in l.interrupted : r.op = "inject" /\ r.pc \in {"lookup", "insert", "persist"}}

\* C20 as claimed: when the process crashed after the record of an inject
\* call was appended and before the delta index was updated or persisted,
\* the delta index registered for the slug after the start holds a chunk for
\* every record of the log of the slug.
C20_Claimed_StartRecoversLog ==
  (last.op = "restart" /\ last.kind = "recovered") =>
    \A r \in EndedBeforePersist(last) :
      LET project == r.request.project[1]
          version == r.request.version[1]
          slug == get_slug(project, version)
      IN  /\ slug \in DOMAIN delta_indexes
          /\ \A record \in LoggedRecords(inject_log, project, version) :
               \E i \in 1..Len(DeltaChunks(slug)) :
                 DeltaChunks(slug)[i].text = record.text

\* C24 as claimed: for every project and version inject accepts, a project
\* with "-" in its name included, load_or_create_delta_index(get_slug(project,
\* version)) reads the records from the directory inject wrote them to: a
\* start that cannot load the persisted index of a slug registers an index
\* that holds a chunk for every record of the log of the slug.
C24_Claimed_RebuildReadsInjectLog ==
  [][(last'.op = "restart" /\ last'.kind # "start_failed")
       => \A pair \in DeltaPairs :
            LET slug == get_slug(pair[1], pair[2])
                records == LoggedRecords(inject_log, pair[1], pair[2])
            IN  (slug \in DOMAIN delta_disk /\ ~delta_disk[slug].loadable
                   /\ records # {})
                  => /\ slug \in DOMAIN delta_indexes'
                     /\ \A record \in records :
                          \E i \in 1..Len(heap'[delta_indexes'[slug]]) :
                            heap'[delta_indexes'[slug]][i].text = record.text]_vars

\* =================================================================
\* Properties of an injection followed by an answer, checked under SpecFresh
\* =================================================================

\* the response is a successful inject
Injected(l) == l.op = "inject" /\ l.status = 200

\* the step hands an answer request for the pair of the response to worker w
TakesAnswerFor(w, l) ==
  /\ inflight[w].pc = "idle"
  /\ inflight'[w].pc # "idle"
  /\ inflight'[w].resp.op = "answer"
  /\ inflight'[w].resp.request.project = l.request.project
  /\ inflight'[w].resp.request.version = l.request.version

\* C19 as claimed: after a successful inject of text X for (project,
\* version) the log of the pair holds exactly one new line, with text X, and
\* an answer call for the same pair that follows immediately (a base index
\* being registered) queries a delta index that holds a chunk with text X,
\* whether or not the slug had a delta index before.
C19_Claimed_InjectedTextIsQueried ==
  [][/\ \A w \in Workers :
          TakesInject(w)
            => AppendsLine(inflight'[w].resp.request.project[1],
                           inflight'[w].resp.request.version[1],
                           inflight'[w].resp.request.textContent[1])
     /\ \A w \in Workers :
          (Injected(last) /\ TakesAnswerFor(w, last))
            => /\ inflight'[w].delta_index # 0
               /\ \E i \in 1..Len(heap[inflight'[w].delta_index]) :
                    heap[inflight'[w].delta_index][i].text
                      = last.request.textContent[1]]_vars

\* =================================================================
\* Durability of answered injections, checked under SpecDurable
\* =================================================================

\* the answered inject requests
Injections == {a \in acked : a.op = "inject"}

\* C21 as claimed: when an inject call returns success the persisted delta
\* index of the slug holds the injected chunk; and a start that loads the
\* persisted delta index of a slug registers an index that holds a chunk
\* for every inject for the slug that returned success.
C21_Claimed_AnsweredInjectIsPersisted ==
  [][/\ (Injected(last') /\ last' # last)
          => LET slug == get_slug(last'.request.project[1], last'.request.version[1])
             IN  /\ slug \in DOMAIN delta_disk'
                 /\ delta_disk'[slug].loadable
                 /\ \E i \in 1..Len(delta_disk'[slug].chunks) :
                      delta_disk'[slug].chunks[i].text = last'.request.textContent[1]
     /\ (last'.op = "restart" /\ last'.kind # "start_failed")
          => \A slug \in DOMAIN delta_disk :
               delta_disk[slug].loadable
                 => /\ slug \in DOMAIN delta_indexes'
                    /\ \A a \in Injections :
                         a.slug = slug
                           => \E i \in 1..Len(heap'[delta_indexes'[slug]]) :
                                heap'[delta_indexes'[slug]][i].text = a.text]_vars

\* =================================================================
\* Properties of injections served concurrently, checked under SpecInjects
\* =================================================================

\* the chunks with the id of an answered inject
ChunksOf(delta_index, a) == {i \in 1..Len(delta_index) : delta_index[i].id = a.id}

\* C23 as claimed: when inject calls for one slug were in flight together,
\* also with no delta index registered yet, after all of them returned
\* success the registered delta index and the persisted one each hold
\* exactly one chunk for every inject.
C23_Claimed_NoChunkLost ==
  (NoneInFlight /\ Injections # {}) =>
    /\ KnownSlug \in DOMAIN delta_indexes
    /\ KnownSlug \in DOMAIN delta_disk
    /\ delta_disk[KnownSlug].loadable
    /\ \A a \in Injections :
         /\ Cardinality(ChunksOf(DeltaChunks(KnownSlug), a)) = 1
         /\ Cardinality(ChunksOf(delta_disk[KnownSlug].chunks, a)) = 1

====
